---- MODULE Spec2Model ----
(***************************************************************************)
(* kataras/azurepush: the SAS token manager (TokenManager.GetToken,        *)
(* GenerateSASToken) and Client.SendNotification, as a state machine.      *)
(*                                                                         *)
(* Time is counted in ticks, TicksPerSecond ticks to the second.  A Go     *)
(* string is the sequence of its characters, "" is <<>>.  An error is the  *)
(* sequence of its layers, outermost first (fmt.Errorf with %w puts a      *)
(* layer in front of the wrapped error); the nil error is <<>>.            *)
(***************************************************************************)
EXTENDS Integers, Sequences, FiniteSets, TLC

\* ------------------------------------------------------------------ bounds
NumCallers == 2
MaxClock == 3
MaxIssued == 2
TicksPerSecond == 2
MaxDirect == 2

\* ------------------------------------------------------------- time units
Second == TicksPerSecond
Minute == 60 * Second
\* the safety margin of GetToken: 5*time.Minute
Margin == 5 * Minute
\* the zero time.Time of a TokenManager that has not issued yet
ZeroTime == 0 - (1000 * Minute)

\* ---------------------------------------------------------------- strings
Nil == <<>>
Empty == <<>>

HttpsPrefix == <<"h", "t", "t", "p", "s", ":", "/", "/">>
HostSuffix ==
  <<".", "s", "e", "r", "v", "i", "c", "e", "b", "u", "s", ".",
    "w", "i", "n", "d", "o", "w", "s", ".", "n", "e", "t", "/">>

\* the bytes url.QueryEscape escapes, with their two hex digits
HexOf ==
  [c \in {":", "/", "&", "=", "+", "%", "?", "@"} |->
     CASE c = ":" -> <<"3", "A">>
       [] c = "/" -> <<"2", "F">>
       [] c = "&" -> <<"2", "6">>
       [] c = "=" -> <<"3", "D">>
       [] c = "+" -> <<"2", "B">>
       [] c = "%" -> <<"2", "5">>
       [] c = "?" -> <<"3", "F">>
       [] c = "@" -> <<"4", "0">>]

\* url.QueryEscape of one byte: a space becomes "+", a reserved byte %XX
EscapeByte(c) ==
  IF c = " " THEN <<"+">>
  ELSE IF c \in DOMAIN HexOf THEN <<"%">> \o HexOf[c]
  ELSE <<c>>

RECURSIVE QueryEscape(_)
QueryEscape(s) ==
  IF s = <<>> THEN <<>> ELSE EscapeByte(Head(s)) \o QueryEscape(Tail(s))

Digits == <<"0", "1", "2", "3", "4", "5", "6", "7", "8", "9">>

\* fmt's %d of an integer
RECURSIVE Decimal(_)
Decimal(n) ==
  IF n < 0 THEN <<"-">> \o Decimal(0 - n)
  ELSE IF n < 10 THEN <<Digits[n + 1]>>
  ELSE Decimal(n \div 10) \o <<Digits[(n % 10) + 1]>>

\* the integer a decimal string denotes (what the verifier reads from se=)
RECURSIVE ParseDecimal(_)
ParseDecimal(s) ==
  IF s = <<>> THEN 0
  ELSE IF Head(s) = "-" THEN 0 - ParseDecimal(Tail(s))
  ELSE ParseDecimal(SubSeq(s, 1, Len(s) - 1)) * 10
       + ((CHOOSE d \in 1..10 : Digits[d] = s[Len(s)]) - 1)

\* time.Time.Unix(): whole seconds, rounded down
Unix(t) == t \div Second

\* the places where sub occurs in s
Occurrences(s, sub) ==
  {i \in 1..(Len(s) - Len(sub) + 1) : SubSeq(s, i, i + Len(sub) - 1) = sub}
Count(s, sub) == Cardinality(Occurrences(s, sub))
\* the first place where sub occurs in s, 0 when it does not
Index(s, sub) ==
  IF Occurrences(s, sub) = {} THEN 0
  ELSE CHOOSE i \in Occurrences(s, sub) : \A j \in Occurrences(s, sub) : i <= j
StartsWith(s, prefix) ==
  Len(s) >= Len(prefix) /\ SubSeq(s, 1, Len(prefix)) = prefix
\* strings.HasPrefix, strings.TrimPrefix and strings.TrimSuffix
HasPrefix(s, prefix) == StartsWith(s, prefix)
TrimPrefix(s, prefix) ==
  IF HasPrefix(s, prefix) THEN SubSeq(s, Len(prefix) + 1, Len(s)) ELSE s
HasSuffix(s, suffix) ==
  Len(s) >= Len(suffix) /\ SubSeq(s, Len(s) - Len(suffix) + 1, Len(s)) = suffix
TrimSuffix(s, suffix) ==
  IF HasSuffix(s, suffix) THEN SubSeq(s, 1, Len(s) - Len(suffix)) ELSE s
\* strings.Split at a separator of one character
RECURSIVE Split(_, _)
Split(s, sep) ==
  IF Index(s, <<sep>>) = 0 THEN <<s>>
  ELSE <<SubSeq(s, 1, Index(s, <<sep>>) - 1)>>
       \o Split(SubSeq(s, Index(s, <<sep>>) + 1, Len(s)), sep)
\* s up to the first sep, all of s when there is none
Before(s, sep) ==
  IF Index(s, sep) = 0 THEN s ELSE SubSeq(s, 1, Index(s, sep) - 1)
\* s after the first sep, empty when there is none
After(s, sep) ==
  IF Index(s, sep) = 0 THEN <<>>
  ELSE SubSeq(s, Index(s, sep) + Len(sep), Len(s))


\* ---------------------------------------------------------- configuration
Validities == {1, Second, Margin + 1, Margin + Second + 1}

Configuration(ns, hub, kn, kv, tv) ==
  [Namespace |-> ns, HubName |-> hub, KeyName |-> kn, KeyValue |-> kv,
   TokenValidity |-> tv, ConnectionString |-> Empty]

\* the prefixes of the parts of a connection string
EndpointPrefix ==
  <<"E", "n", "d", "p", "o", "i", "n", "t", "=">>
KeyNamePrefix ==
  <<"S", "h", "a", "r", "e", "d", "A", "c", "c", "e", "s", "s", "K",
    "e", "y", "N", "a", "m", "e", "=">>
KeyPrefix ==
  <<"S", "h", "a", "r", "e", "d", "A", "c", "c", "e", "s", "s", "K",
    "e", "y", "=">>
ServiceBusDomain ==
  <<".", "s", "e", "r", "v", "i", "c", "e", "b", "u", "s", ".", "w",
    "i", "n", "d", "o", "w", "s", ".", "n", "e", "t">>

\* url.Parse and URL.Hostname of an endpoint: a string that starts with
\* ":" has no scheme and does not parse; the host is what stands between
\* "://" and the next "/", without a port; without "://" there is no host
ParseURL(e) ==
  IF HasPrefix(e, <<":">>)
  THEN [host |-> Empty, err |-> <<"missing protocol scheme">>]
  ELSE [host |-> Before(Before(After(e, <<":", "/", "/">>), <<"/">>), <<":">>),
        err |-> Nil]

\* the loop of parseConnectionString over the parts from part k on
RECURSIVE ParseParts(_, _, _)
ParseParts(parts, k, acc) ==
  IF k > Len(parts) THEN acc
  ELSE IF HasPrefix(parts[k], EndpointPrefix)
  THEN LET u == ParseURL(TrimPrefix(parts[k], EndpointPrefix))
       IN IF u.err # Nil
          THEN [acc EXCEPT !.err = <<<<"invalid endpoint url: %w">>>> \o u.err]
          ELSE ParseParts(parts, k + 1,
                 [acc EXCEPT !.namespace = TrimSuffix(u.host, ServiceBusDomain)])
  ELSE IF HasPrefix(parts[k], KeyNamePrefix)
  THEN ParseParts(parts, k + 1,
         [acc EXCEPT !.keyName = TrimPrefix(parts[k], KeyNamePrefix)])
  ELSE IF HasPrefix(parts[k], KeyPrefix)
  THEN ParseParts(parts, k + 1,
         [acc EXCEPT !.keyValue = TrimPrefix(parts[k], KeyPrefix)])
  ELSE ParseParts(parts, k + 1, acc)

\* a parseConnectionString that stores what it found before it checks it
parseConnectionStringEager(c) ==
  IF c.ConnectionString = Empty THEN [cfg |-> c, err |-> Nil]
  ELSE LET parts == Split(c.ConnectionString, ";")
       IN IF Len(parts) < 3
          THEN [cfg |-> c, err |-> <<"invalid connection string format">>]
          ELSE LET got == ParseParts(parts, 1,
                            [namespace |-> Empty, keyName |-> Empty,
                             keyValue |-> Empty, err |-> Nil])
                   stored == [c EXCEPT !.Namespace = got.namespace,
                                       !.KeyName = got.keyName,
                                       !.KeyValue = got.keyValue]
               IN IF got.err # Nil THEN [cfg |-> stored, err |-> got.err]
                  ELSE IF \/ got.namespace = Empty
                          \/ got.keyName = Empty
                          \/ got.keyValue = Empty
                  THEN [cfg |-> stored,
                        err |-> <<"missing required connection string parts">>]
                  ELSE [cfg |-> stored, err |-> Nil]

\* Configuration.parseConnectionString: the configuration it leaves and
\* the error it returns
parseConnectionString(c) ==
  IF c.ConnectionString = Empty THEN [cfg |-> c, err |-> Nil]
  ELSE LET parts == Split(c.ConnectionString, ";")
       IN IF Len(parts) < 3
          THEN [cfg |-> c, err |-> <<"invalid connection string format">>]
          ELSE LET got == ParseParts(parts, 1,
                            [namespace |-> Empty, keyName |-> Empty,
                             keyValue |-> Empty, err |-> Nil])
               IN IF got.err # Nil THEN [cfg |-> c, err |-> got.err]
                  ELSE IF \/ got.namespace = Empty
                          \/ got.keyName = Empty
                          \/ got.keyValue = Empty
                  THEN [cfg |-> c,
                        err |-> <<"missing required connection string parts">>]
                  ELSE [cfg |-> [c EXCEPT !.Namespace = got.namespace,
                                          !.KeyName = got.keyName,
                                          !.KeyValue = got.keyValue],
                        err |-> Nil]

\* the checks of Configuration.Validate after parseConnectionString
ValidateFields(c) ==
  IF c.Namespace = Empty THEN <<"missing Azure namespace">>
  ELSE IF c.KeyName = Empty THEN <<"missing Azure key name">>
  ELSE IF c.KeyValue = Empty THEN <<"missing Azure key value">>
  ELSE IF c.TokenValidity = 0 THEN <<"missing token validity duration">>
  ELSE Nil

\* Configuration.Validate: the error it returns
Validate(c) ==
  IF parseConnectionString(c).err # Nil
  THEN parseConnectionString(c).err
  ELSE ValidateFields(parseConnectionString(c).cfg)

\* the configurations a TokenManager is built from: NewTokenManager takes
\* any Configuration, NewClient only one that Validate accepts
Configurations ==
  {Configuration(<<"n">>, <<"h">>, <<"k">>, <<"s", "=">>, v) : v \in Validities}
  \cup {Configuration(<<"n">>, <<"h">>, Empty, <<"s", "=">>, Second)}

\* ------------------------------------------------------- GenerateSASToken
\* HMAC-SHA256 and base64 are kept symbolic: the value names its inputs
HmacSha256(key, msg) == <<"hmac-sha256", key, msg>>
Base64(bytes) == <<"base64", bytes>>
\* url.QueryEscape of a base64 string (injective, kept symbolic)
EscapeSignature(sig) == <<"QueryEscape", sig>>

\* the token whose last field is labelled se as well
SASTokenSeTwice(encodedURI, encodedSig, ttl, keyName) ==
  <<"SharedAccessSignature sr=", encodedURI, "&sig=", encodedSig,
    "&se=", Decimal(ttl), "&se=", keyName>>

SASToken(encodedURI, encodedSig, ttl, keyName) ==
  <<"SharedAccessSignature sr=", encodedURI, "&sig=", encodedSig,
    "&se=", Decimal(ttl), "&skn=", keyName>>

\* GenerateSASToken without the check of its parameters
GenerateSASTokenNoCheck(resourceUri, keyName, key, duration, now) ==
  LET encodedURI == QueryEscape(resourceUri)
      ttl == Unix(now + duration)
      signingString == encodedURI \o <<"\n">> \o Decimal(ttl)
      signature == Base64(HmacSha256(key, signingString))
      encodedSig == EscapeSignature(signature)
  IN [tok |-> SASToken(encodedURI, encodedSig, ttl, keyName), err |-> Nil]

\* GenerateSASToken signing the resource URI as it was given
GenerateSASTokenRawSign(resourceUri, keyName, key, duration, now) ==
  IF resourceUri = Empty \/ keyName = Empty \/ key = Empty
  THEN [tok |-> Empty, err |-> <<<<"missing required parameter">>>>]
  ELSE LET encodedURI == QueryEscape(resourceUri)
           ttl == Unix(now + duration)
           signingString == resourceUri \o <<"\n">> \o Decimal(ttl)
           signature == Base64(HmacSha256(key, signingString))
           encodedSig == EscapeSignature(signature)
       IN [tok |-> SASToken(encodedURI, encodedSig, ttl, keyName),
           err |-> Nil]

\* GenerateSASToken with the expiry at the full resolution of the clock
GenerateSASTokenFineExpiry(resourceUri, keyName, key, duration, now) ==
  IF resourceUri = Empty \/ keyName = Empty \/ key = Empty
  THEN [tok |-> Empty, err |-> <<<<"missing required parameter">>>>]
  ELSE LET encodedURI == QueryEscape(resourceUri)
           ttl == now + duration
           signingString == encodedURI \o <<"\n">> \o Decimal(ttl)
           signature == Base64(HmacSha256(key, signingString))
           encodedSig == EscapeSignature(signature)
       IN [tok |-> SASToken(encodedURI, encodedSig, ttl, keyName),
           err |-> Nil]

\* the result of GenerateSASToken called when the clock reads now
GenerateSASToken(resourceUri, keyName, key, duration, now) ==
  IF resourceUri = Empty \/ keyName = Empty \/ key = Empty
  THEN [tok |-> Empty, err |-> <<<<"missing required parameter">>>>]
  ELSE LET encodedURI == QueryEscape(resourceUri)
           ttl == Unix(now + duration)
           signingString == encodedURI \o <<"\n">> \o Decimal(ttl)
           signature == Base64(HmacSha256(key, signingString))
           encodedSig == EscapeSignature(signature)
       IN [tok |-> SASToken(encodedURI, encodedSig, ttl, keyName),
           err |-> Nil]

\* the se field of a token, as the integer it denotes
TokenSE(tok) == ParseDecimal(tok[6])

\* the scheme every token starts with
Scheme ==
  <<"S", "h", "a", "r", "e", "d", "A", "c", "c", "e", "s", "s",
    "S", "i", "g", "n", "a", "t", "u", "r", "e", " ">>
\* the characters of the pieces of the format string of the token
Chars ==
  [piece \in {"SharedAccessSignature sr=", "&sig=", "&se=", "&skn="} |->
     CASE piece = "SharedAccessSignature sr=" -> Scheme \o <<"s", "r", "=">>
       [] piece = "&sig=" -> <<"&", "s", "i", "g", "=">>
       [] piece = "&se=" -> <<"&", "s", "e", "=">>
       [] piece = "&skn=" -> <<"&", "s", "k", "n", "=">>]
\* the text of an escaped base64 signature: letters, digits and %XX only,
\* none of them "=" or "&"; one letter stands for the whole of it
SigText(encodedSig) == <<"S">>
\* the token as the string that Sprintf builds
TokenText(tok) ==
  Chars[tok[1]] \o tok[2] \o Chars[tok[3]] \o SigText(tok[4])
  \o Chars[tok[5]] \o tok[6] \o Chars[tok[7]] \o tok[8]

\* ------------------------------------------------------------------ state
Client == 0
Callers == 1..NumCallers
Procs == {Client} \cup Callers
Free == 0 - 1

VARIABLES
  clock,      \* what time.Now() reads, in ticks
  cfg,        \* TokenManager.cfg
  token,      \* TokenManager.token
  expiresAt,  \* TokenManager.expiresAt
  mutex,      \* TokenManager.mutex: its holder, or Free
  pc,         \* where each goroutine is in GetToken
  ret,        \* what GetToken returned to each goroutine
  pre,        \* the cache as the goroutine found it on taking the lock
  checkNow,   \* the clock reading of the goroutine's expiry check
  hit,        \* whether the expiry check found the cached token good
  gen,        \* GenerateSASToken invocations of the goroutine's call
  issued,     \* tokens stored in the cache so far
  op,         \* the Client operation running or last run
  tags,       \* SendNotification's tags argument
  sasToken,   \* SendNotification's local token
  idx,        \* the position of SendNotification's loop in availablePlatforms
  noDevices,  \* SendNotification's local noDevices
  inflight,   \* the request HTTPClient.Do is waiting on, or Nil
  requests,   \* the requests the operation has sent, in order
  responses,  \* what the gateway answered to them, in order
  result,     \* what the operation returned
  outcomes,   \* what sendPlatformNotification returned for each request
  arg,        \* the installation (or installation ID) the operation works on
  given,      \* the installation (or installation ID) as the caller passed it
  args,       \* the arguments of the direct calls of GenerateSASToken
  issues,     \* the direct calls of GenerateSASToken so far: clock and result
  config,     \* the Configuration a caller of Validate holds
  validation, \* the call of Validate on it: done, its error, config before
  notification, \* the Notification whose payloads are built
  payloads    \* platform -> the payload built for it and the error, if built

tmVars == <<cfg, token, expiresAt, mutex>>
callVars == <<pc, ret, pre, checkNow, hit, gen, issued>>
sendVars ==
  <<op, tags, sasToken, idx, noDevices, inflight, requests, responses, result,
    outcomes, arg, given>>
genVars == <<args, issues, config, validation, notification, payloads>>
vars == <<clock, tmVars, callVars, sendVars, genVars>>

NoResult == [tok |-> Empty, err |-> Nil]
NoOutcome == [returned |-> FALSE, err |-> Nil, val |-> Empty, ok |-> FALSE]
Outcome(val, err) == [returned |-> TRUE, err |-> err, val |-> val, ok |-> FALSE]
NoInstallation == [InstallationID |-> Empty, Platform |-> Empty, PushChannel |-> Empty]
\* a Notification without title, body and data
NoNotification == [Title |-> Empty, Body |-> Empty, Data |-> <<>>]
\* the platforms sendPlatformNotification is asked for a payload for: the
\* three of the loop and one it does not support
PayloadPlatforms == {<<"a", "p", "p", "l", "e">>, <<"g", "c", "m">>,
                     <<"f", "c", "m", "V", "1">>, <<"w", "n", "s">>}
NotBuilt == <<>>
NoPayloads == [platform \in PayloadPlatforms |-> NotBuilt]
NoConfig == Configuration(Empty, Empty, Empty, Empty, 0)
NotValidated == [done |-> FALSE, err |-> Nil, before |-> NoConfig]
NoArgs == [resourceUri |-> Empty, keyName |-> Empty, key |-> Empty, duration |-> 0]

\* NewTokenManager(cfg): an empty cache, no goroutine in GetToken
InitManager ==
  /\ clock = 0
  /\ cfg \in Configurations
  /\ token = Empty
  /\ expiresAt = ZeroTime
  /\ mutex = Free
  /\ pc = [p \in Procs |-> "idle"]
  /\ ret = [p \in Procs |-> NoResult]
  /\ pre = [p \in Procs |-> <<Empty, ZeroTime>>]
  /\ checkNow = [p \in Procs |-> 0]
  /\ hit = [p \in Procs |-> FALSE]
  /\ gen = [p \in Procs |-> 0]
  /\ issued = 0
  /\ op = "none"
  /\ tags = <<>>
  /\ sasToken = Empty
  /\ idx = 1
  /\ noDevices = 0
  /\ inflight = Nil
  /\ requests = <<>>
  /\ responses = <<>>
  /\ result = NoOutcome
  /\ outcomes = <<>>
  /\ arg = NoInstallation
  /\ given = NoInstallation
  /\ issues = <<>>
  /\ validation = NotValidated
  /\ payloads = NoPayloads

Init ==
  InitManager /\ args = NoArgs /\ config = NoConfig
  /\ notification = NoNotification

\* time passes
Tick ==
  /\ clock < MaxClock
  /\ clock' = clock + 1
  /\ UNCHANGED <<tmVars, callVars, sendVars, genVars>>

\* the expiry check with the boundary instant counted as expired
NeedsRefreshAtOrAfter(tok, now, exp) == tok = Empty \/ now >= exp - Margin
\* the expiry check that never finds the cache good
NeedsRefreshAlways(tok, now, exp) == TRUE
\* the expiry check that forgets the margin
NeedsRefreshNoMargin(tok, now, exp) == tok = Empty \/ now > exp

\* a condition that refreshes an empty cache only
NeedsRefreshEmptyOnly(tok, now, exp) == tok = Empty

\* the condition of GetToken's if
NeedsRefresh(tok, now, exp) == tok = Empty \/ now > exp - Margin

ResourceURI(c) == HttpsPrefix \o c.Namespace \o HostSuffix \o c.HubName

\* a goroutine calls GetToken and waits for the mutex
Call(p) ==
  /\ pc[p] \in {"idle", "done"}
  /\ issued < MaxIssued
  /\ pc' = [pc EXCEPT ![p] = "lock"]
  /\ ret' = [ret EXCEPT ![p] = NoResult]
  /\ hit' = [hit EXCEPT ![p] = FALSE]
  /\ gen' = [gen EXCEPT ![p] = 0]
  /\ UNCHANGED <<clock, tmVars, pre, checkNow, issued, sendVars, genVars>>

\* a Lock that does not wait for the holder
LockNoWait(p) ==
  /\ pc[p] = "lock"
  /\ mutex' = p
  /\ pre' = [pre EXCEPT ![p] = <<token, expiresAt>>]
  /\ pc' = [pc EXCEPT ![p] = "check"]
  /\ UNCHANGED <<clock, cfg, token, expiresAt, ret, checkNow, hit, gen, issued, sendVars, genVars>>

\* tm.mutex.Lock()
Lock(p) ==
  /\ pc[p] = "lock"
  /\ mutex = Free
  /\ mutex' = p
  /\ pre' = [pre EXCEPT ![p] = <<token, expiresAt>>]
  /\ pc' = [pc EXCEPT ![p] = "check"]
  /\ UNCHANGED <<clock, cfg, token, expiresAt, ret, checkNow, hit, gen, issued, sendVars, genVars>>

\* if tm.token == "" || time.Now().After(tm.expiresAt.Add(-5*time.Minute))
Check(p) ==
  /\ pc[p] = "check"
  /\ checkNow' = [checkNow EXCEPT ![p] = clock]
  /\ IF NeedsRefresh(token, clock, expiresAt)
     THEN /\ pc' = [pc EXCEPT ![p] = "generate"]
          /\ hit' = hit
     ELSE /\ pc' = [pc EXCEPT ![p] = "return"]
          /\ hit' = [hit EXCEPT ![p] = TRUE]
  /\ UNCHANGED <<clock, tmVars, ret, pre, gen, issued, sendVars, genVars>>

\* a Generate that sets expiresAt before it looks at the error
GenerateStoreFirst(p) ==
  /\ pc[p] = "generate"
  /\ gen' = [gen EXCEPT ![p] = @ + 1]
  /\ expiresAt' = clock + cfg.TokenValidity
  /\ LET r == GenerateSASToken(ResourceURI(cfg), cfg.KeyName, cfg.KeyValue,
                               cfg.TokenValidity, clock)
     IN IF r.err # Nil
        THEN /\ ret' = [ret EXCEPT ![p] = [tok |-> Empty, err |-> r.err]]
             /\ pc' = [pc EXCEPT ![p] = "unlock"]
             /\ token' = token
        ELSE /\ token' = r.tok
             /\ pc' = [pc EXCEPT ![p] = "store"]
             /\ ret' = ret
  /\ UNCHANGED <<clock, cfg, mutex, pre, checkNow, hit, issued, sendVars, genVars>>

\* a Generate whose error return skips the Unlock
GenerateNoDefer(p) ==
  /\ pc[p] = "generate"
  /\ gen' = [gen EXCEPT ![p] = @ + 1]
  /\ LET r == GenerateSASToken(ResourceURI(cfg), cfg.KeyName, cfg.KeyValue,
                               cfg.TokenValidity, clock)
     IN IF r.err # Nil
        THEN /\ ret' = [ret EXCEPT ![p] = [tok |-> Empty, err |-> r.err]]
             /\ pc' = [pc EXCEPT ![p] = "done"]
             /\ token' = token
        ELSE /\ token' = r.tok
             /\ pc' = [pc EXCEPT ![p] = "store"]
             /\ ret' = ret
  /\ UNCHANGED <<clock, cfg, expiresAt, mutex, pre, checkNow, hit, issued, sendVars, genVars>>

\* token, err := GenerateSASToken(...); on an error return "", err;
\* otherwise tm.token = token
Generate(p) ==
  /\ pc[p] = "generate"
  /\ gen' = [gen EXCEPT ![p] = @ + 1]
  /\ LET r == GenerateSASToken(ResourceURI(cfg), cfg.KeyName, cfg.KeyValue,
                               cfg.TokenValidity, clock)
     IN IF r.err # Nil
        THEN /\ ret' = [ret EXCEPT ![p] = [tok |-> Empty, err |-> r.err]]
             /\ pc' = [pc EXCEPT ![p] = "unlock"]
             /\ token' = token
        ELSE /\ token' = r.tok
             /\ pc' = [pc EXCEPT ![p] = "store"]
             /\ ret' = ret
  /\ UNCHANGED <<clock, cfg, expiresAt, mutex, pre, checkNow, hit, issued, sendVars, genVars>>

\* a Store that counts the validity back from the clock
StoreBackdated(p) ==
  /\ pc[p] = "store"
  /\ expiresAt' = cfg.TokenValidity - clock
  /\ issued' = issued + 1
  /\ pc' = [pc EXCEPT ![p] = "return"]
  /\ UNCHANGED <<clock, cfg, token, mutex, ret, pre, checkNow, hit, gen, sendVars, genVars>>

\* tm.expiresAt = time.Now().Add(tm.cfg.TokenValidity)
Store(p) ==
  /\ pc[p] = "store"
  /\ expiresAt' = clock + cfg.TokenValidity
  /\ issued' = issued + 1
  /\ pc' = [pc EXCEPT ![p] = "return"]
  /\ UNCHANGED <<clock, cfg, token, mutex, ret, pre, checkNow, hit, gen, sendVars, genVars>>

\* a Return of the token read before the refresh
ReturnStale(p) ==
  /\ pc[p] = "return"
  /\ ret' = [ret EXCEPT ![p] = [tok |-> pre[p][1], err |-> Nil]]
  /\ pc' = [pc EXCEPT ![p] = "unlock"]
  /\ UNCHANGED <<clock, tmVars, pre, checkNow, hit, gen, issued, sendVars, genVars>>

\* a Return that pushes the expiry forward on every use
ReturnTouch(p) ==
  /\ pc[p] = "return"
  /\ ret' = [ret EXCEPT ![p] = [tok |-> token, err |-> Nil]]
  /\ expiresAt' = clock + cfg.TokenValidity
  /\ pc' = [pc EXCEPT ![p] = "unlock"]
  /\ UNCHANGED <<clock, cfg, token, mutex, pre, checkNow, hit, gen, issued, sendVars, genVars>>

\* return tm.token, nil
Return(p) ==
  /\ pc[p] = "return"
  /\ ret' = [ret EXCEPT ![p] = [tok |-> token, err |-> Nil]]
  /\ pc' = [pc EXCEPT ![p] = "unlock"]
  /\ UNCHANGED <<clock, tmVars, pre, checkNow, hit, gen, issued, sendVars, genVars>>

\* a GetToken that returns without releasing the mutex
UnlockKeeps(p) ==
  /\ pc[p] = "unlock"
  /\ pc' = [pc EXCEPT ![p] = "done"]
  /\ UNCHANGED <<clock, tmVars, ret, pre, checkNow, hit, gen, issued, sendVars, genVars>>

\* the deferred tm.mutex.Unlock()
Unlock(p) ==
  /\ pc[p] = "unlock"
  /\ mutex' = Free
  /\ pc' = [pc EXCEPT ![p] = "done"]
  /\ UNCHANGED <<clock, cfg, token, expiresAt, ret, pre, checkNow, hit, gen, issued, sendVars, genVars>>

GetToken(p) ==
  \/ Lock(p)
  \/ Check(p)
  \/ Generate(p)
  \/ Store(p)
  \/ Return(p)
  \/ Unlock(p)

\* ------------------------------------------------------ SendNotification
applePlatform == <<"a", "p", "p", "l", "e">>
gcmPlatform == <<"g", "c", "m">>
fcmV1Platform == <<"f", "c", "m", "V", "1">>
\* the platforms of the loop without fcmV1
availablePlatformsTwo == <<applePlatform, gcmPlatform>>

availablePlatforms == <<applePlatform, gcmPlatform, fcmV1Platform>>

errDeviceNotFound == <<<<"no device found">>>>

\* fmt.Errorf with a %w verb: a new layer around the wrapped error
Wrap(layer, err) == <<layer>> \o err

\* errors.Is(err, target)
ErrorsIs(err, target) ==
  \E i \in 1..Len(err) : SubSeq(err, i, Len(err)) = target

\* strings.Join(elems, sep)
RECURSIVE Join(_, _)
Join(elems, sep) ==
  IF elems = <<>> THEN <<>>
  ELSE IF Len(elems) = 1 THEN elems[1]
  ELSE elems[1] \o sep \o Join(Tail(elems), sep)

\* what the gateway may answer: a status with a body, or no answer at all
\* (HTTPClient.Do returns an error)
StatusNotFound == 404
StatusGone == 410
Statuses == {200, 299, 300, StatusNotFound, StatusGone, 400, 500}
Body == <<"b">>
TransportError == <<<<"connection refused">>>>
\* the statuses that are answered with an empty body as well
BodilessStatuses == {200, StatusNotFound, 500}
Answers ==
  {[status |-> st, body |-> Body, err |-> Nil] : st \in Statuses}
  \cup {[status |-> st, body |-> Empty, err |-> Nil] : st \in BodilessStatuses}
  \cup {[status |-> 0, body |-> Empty, err |-> TransportError]}

TagLists == {<<>>, <<<<"u">>>>, <<<<"u">>, <<"v">>>>}

\* the request sendPlatformNotification builds for a platform
PlatformRequest(platform, tok, tgs) ==
  [method |-> "POST", id |-> Empty, platform |-> platform, auth |-> tok,
   tagsHeader |-> Join(tgs, <<",">>)]

\* what sendPlatformNotification returns once client.Do has returned
\* the classification that takes every 4xx status for a missing device
PlatformResultSoft4xx(platform, answer) ==
  IF answer.err # Nil
  THEN Wrap(<<"failed to send %s request: %w", platform>>, answer.err)
  ELSE IF answer.status >= 400 /\ answer.status < 500
  THEN Wrap(<<"%w: %s notification skipped", platform>>, errDeviceNotFound)
  ELSE IF answer.status >= 300
  THEN <<<<"failed to send %s notification with status: %d and body: %s",
           platform, answer.status, answer.body>>>>
  ELSE Nil

\* the classification whose hard statuses start above 300
PlatformResultAbove300(platform, answer) ==
  IF answer.err # Nil
  THEN Wrap(<<"failed to send %s request: %w", platform>>, answer.err)
  ELSE IF answer.status = StatusNotFound \/ answer.status = StatusGone
  THEN Wrap(<<"%w: %s notification skipped", platform>>, errDeviceNotFound)
  ELSE IF answer.status > 300
  THEN <<<<"failed to send %s notification with status: %d and body: %s",
           platform, answer.status, answer.body>>>>
  ELSE Nil

\* the classification that takes a failed transport for a missing device
PlatformResultTransportSkipped(platform, answer) ==
  IF answer.err # Nil
  THEN Wrap(<<"%w: %s notification skipped", platform>>, errDeviceNotFound)
  ELSE IF answer.status = StatusNotFound \/ answer.status = StatusGone
  THEN Wrap(<<"%w: %s notification skipped", platform>>, errDeviceNotFound)
  ELSE IF answer.status >= 300
  THEN <<<<"failed to send %s notification with status: %d and body: %s",
           platform, answer.status, answer.body>>>>
  ELSE Nil

PlatformResult(platform, answer) ==
  IF answer.err # Nil
  THEN Wrap(<<"failed to send %s request: %w", platform>>, answer.err)
  ELSE IF answer.status = StatusNotFound \/ answer.status = StatusGone
  THEN Wrap(<<"%w: %s notification skipped", platform>>, errDeviceNotFound)
  ELSE IF answer.status >= 300
  THEN <<<<"failed to send %s notification with status: %d and body: %s",
           platform, answer.status, answer.body>>>>
  ELSE Nil

\* the aggregation of a two-platform loop
AggregateTwo(n, tgs) ==
  IF n = 2
  THEN Wrap(<<"%w: for tag(s): %s", Join(tgs, <<",", " ">>)>>, errDeviceNotFound)
  ELSE Nil

\* the aggregation that fails as soon as one platform has no device
AggregateAny(n, tgs) ==
  IF n > 0
  THEN Wrap(<<"%w: for tag(s): %s", Join(tgs, <<",", " ">>)>>, errDeviceNotFound)
  ELSE Nil

\* what SendNotification returns after its loop
Aggregate(n, tgs) ==
  IF n = Len(availablePlatforms)
  THEN Wrap(<<"%w: for tag(s): %s", Join(tgs, <<",", " ">>)>>, errDeviceNotFound)
  ELSE Nil

\* a loop that counts every error and goes on
AbortsNever(err) == FALSE

\* the loop that returns the first error of any kind
AbortsAlways(err) == err # Nil

\* whether the loop returns the error of a platform at once
Aborts(err) == err # Nil /\ ~ErrorsIs(err, errDeviceNotFound)

\* SendNotification is called: it calls GetToken first
SendNotification(tgs) ==
  /\ pc[Client] = "idle"
  /\ issued < MaxIssued
  /\ op' = "SendNotification"
  /\ tags' = tgs
  /\ sasToken' = Empty
  /\ idx' = 1
  /\ noDevices' = 0
  /\ requests' = <<>>
  /\ responses' = <<>>
  /\ result' = NoOutcome
  /\ pc' = [pc EXCEPT ![Client] = "lock"]
  /\ ret' = [ret EXCEPT ![Client] = NoResult]
  /\ hit' = [hit EXCEPT ![Client] = FALSE]
  /\ gen' = [gen EXCEPT ![Client] = 0]
  /\ outcomes' = <<>>
  /\ arg' = NoInstallation
  /\ given' = NoInstallation
  /\ UNCHANGED <<clock, tmVars, pre, checkNow, issued, inflight, genVars>>

\* token, err := c.TokenManager.GetToken(); if err != nil { return ... }
SendGotToken ==
  /\ pc[Client] = "done"
  /\ op = "SendNotification"
  /\ IF ret[Client].err # Nil
     THEN /\ result' = Outcome(Empty, Wrap(<<"failed to get SAS token: %w">>,
                                          ret[Client].err))
          /\ pc' = [pc EXCEPT ![Client] = "idle"]
          /\ sasToken' = sasToken
     ELSE /\ sasToken' = ret[Client].tok
          /\ pc' = [pc EXCEPT ![Client] = "send"]
          /\ result' = result
  /\ UNCHANGED <<clock, tmVars, ret, pre, checkNow, hit, gen, issued,
                 op, tags, idx, noDevices, inflight, requests, responses,
                 outcomes, arg, given, genVars>>

\* a send that issues the requests of all platforms at once
SendRequestAll ==
  /\ pc[Client] = "send"
  /\ op = "SendNotification"
  /\ LET reqs == [i \in 1..Len(availablePlatforms) |->
                    PlatformRequest(availablePlatforms[i], sasToken, tags)]
     IN /\ inflight' = reqs[idx]
        /\ requests' = IF idx = 1 THEN reqs ELSE requests
  /\ pc' = [pc EXCEPT ![Client] = "await"]
  /\ UNCHANGED <<clock, tmVars, ret, pre, checkNow, hit, gen, issued,
                 op, tags, sasToken, idx, noDevices, responses, result,
                 outcomes, arg, given, genVars>>

\* sendPlatformNotification up to client.Do(req): the request leaves
SendRequest ==
  /\ pc[Client] = "send"
  /\ op = "SendNotification"
  /\ LET req == PlatformRequest(availablePlatforms[idx], sasToken, tags)
     IN /\ inflight' = req
        /\ requests' = Append(requests, req)
  /\ pc' = [pc EXCEPT ![Client] = "await"]
  /\ UNCHANGED <<clock, tmVars, ret, pre, checkNow, hit, gen, issued,
                 op, tags, sasToken, idx, noDevices, responses, result,
                 outcomes, arg, given, genVars>>

\* a loop that calls GetToken again before the request of the next platform
SendResponseRefetch(answer) ==
  /\ pc[Client] = "await"
  /\ op = "SendNotification"
  /\ inflight' = Nil
  /\ responses' = Append(responses, answer)
  /\ outcomes' = Append(outcomes, PlatformResult(availablePlatforms[idx], answer))
  /\ LET err == PlatformResult(availablePlatforms[idx], answer)
         n == IF err # Nil THEN noDevices + 1 ELSE noDevices
     IN IF Aborts(err)
        THEN /\ result' = Outcome(Empty, err)
             /\ pc' = [pc EXCEPT ![Client] = "idle"]
             /\ UNCHANGED <<idx, noDevices>>
        ELSE /\ noDevices' = n
             /\ IF idx < Len(availablePlatforms)
                THEN /\ idx' = idx + 1
                     /\ pc' = [pc EXCEPT ![Client] = "lock"]
                     /\ result' = result
                ELSE /\ idx' = idx
                     /\ pc' = [pc EXCEPT ![Client] = "idle"]
                     /\ result' = Outcome(Empty, Aggregate(n, tags))
  /\ UNCHANGED <<clock, tmVars, ret, pre, checkNow, hit, gen, issued,
                 op, tags, sasToken, requests, arg, given, genVars>>

\* client.Do returns; sendPlatformNotification classifies the answer and
\* SendNotification's loop counts it, returns it or goes on
SendResponse(answer) ==
  /\ pc[Client] = "await"
  /\ op = "SendNotification"
  /\ inflight' = Nil
  /\ responses' = Append(responses, answer)
  /\ outcomes' = Append(outcomes, PlatformResult(availablePlatforms[idx], answer))
  /\ LET err == PlatformResult(availablePlatforms[idx], answer)
         n == IF err # Nil THEN noDevices + 1 ELSE noDevices
     IN IF Aborts(err)
        THEN /\ result' = Outcome(Empty, err)
             /\ pc' = [pc EXCEPT ![Client] = "idle"]
             /\ UNCHANGED <<idx, noDevices>>
        ELSE /\ noDevices' = n
             /\ IF idx < Len(availablePlatforms)
                THEN /\ idx' = idx + 1
                     /\ pc' = [pc EXCEPT ![Client] = "send"]
                     /\ result' = result
                ELSE /\ idx' = idx
                     /\ pc' = [pc EXCEPT ![Client] = "idle"]
                     /\ result' = Outcome(Empty, Aggregate(n, tags))
  /\ UNCHANGED <<clock, tmVars, ret, pre, checkNow, hit, gen, issued,
                 op, tags, sasToken, requests, arg, given, genVars>>

\* ------------------------------------------------ the device operations
InstallationApple == <<"a", "p", "n", "s">>
InstallationAndroid == <<"g", "c", "m">>
InstallationFCM == <<"f", "c", "m">>
InstallationFCMV1 == <<"F", "C", "M", "V", "1">>
InstallationBaidu == <<"b", "a", "i", "d", "u">>
InstallationWNS == <<"w", "n", "s">>
InstallationMPNS == <<"m", "p", "n", "s">>

\* Installation.Validate: nil, or the error of the first field that fails
ValidateInstallation(i) ==
  IF i.Platform \notin {InstallationApple, InstallationAndroid, InstallationFCM,
                        InstallationFCMV1, InstallationBaidu, InstallationWNS,
                        InstallationMPNS}
  THEN <<<<"invalid platform: %q (must be 'apns' or 'fcm' or 'FCMV1' or 'gcm')",
           i.Platform>>>>
  ELSE IF i.InstallationID = Empty
  THEN <<<<"installation ID is required">>>>
  ELSE IF i.PushChannel = Empty
  THEN <<<<"push channel is required">>>>
  ELSE Nil

\* the installations and installation IDs that callers pass
InstallationIDs == {Empty, <<"d">>}
Installations ==
  [InstallationID : InstallationIDs,
   Platform : {InstallationApple, InstallationFCM, <<"x">>},
   PushChannel : {Empty, <<"c">>}]
\* what uuid.NewString can return
UUIDs == {<<"u", "1">>, <<"u", "2">>}
\* the answers of the gateway to a request about one installation
DeviceStatuses == {200, 201, 204, 299, 300, StatusNotFound, 500}
DeviceAnswers ==
  {[status |-> st, body |-> Body, err |-> Nil] : st \in DeviceStatuses}
  \cup {[status |-> 0, body |-> Empty, err |-> TransportError]}

\* json.Marshal of an installation
Marshal(i) == <<i.InstallationID, i.Platform, i.PushChannel>>
\* the platform RegisterDevice sends: "fcm" is rewritten to "gcm"
SentPlatform(i) ==
  IF i.Platform = InstallationFCM THEN InstallationAndroid ELSE i.Platform
\* the request about one installation
DeviceRequest(method, id, platform, tok) ==
  [method |-> method, id |-> id, platform |-> platform, auth |-> tok,
   tagsHeader |-> Empty]

\* the entry of a Client operation other than SendNotification
Enter(o, a) ==
  /\ op' = o
  /\ arg' = a
  /\ tags' = <<>>
  /\ sasToken' = Empty
  /\ idx' = 1
  /\ noDevices' = 0
  /\ requests' = <<>>
  /\ responses' = <<>>
  /\ outcomes' = <<>>
  /\ ret' = [ret EXCEPT ![Client] = NoResult]
  /\ hit' = [hit EXCEPT ![Client] = FALSE]
  /\ gen' = [gen EXCEPT ![Client] = 0]
  /\ UNCHANGED <<clock, tmVars, pre, checkNow, issued, inflight, genVars>>

\* the request of an operation leaves with the token GetToken returned
Send(req) ==
  /\ sasToken' = ret[Client].tok
  /\ inflight' = req
  /\ requests' = Append(requests, req)
  /\ pc' = [pc EXCEPT ![Client] = "await"]
  /\ UNCHANGED result

\* an operation that sends its request although it has no token
FailAfterRequest(err) ==
  /\ result' = Outcome(Empty, err)
  /\ pc' = [pc EXCEPT ![Client] = "idle"]
  /\ requests' = Append(requests, DeviceRequest("GET", arg.InstallationID, Empty, Empty))
  /\ UNCHANGED <<sasToken, inflight>>

\* the operation returns without a request
Fail(err) ==
  /\ result' = Outcome(Empty, err)
  /\ pc' = [pc EXCEPT ![Client] = "idle"]
  /\ UNCHANGED <<sasToken, inflight, requests>>

\* RegisterDevice up to the call of GetToken
RegisterDevice(installation, uuid) ==
  /\ pc[Client] = "idle"
  /\ issued < MaxIssued
  /\ LET i == IF installation.InstallationID = Empty
              THEN [installation EXCEPT !.InstallationID = uuid]
              ELSE installation
         err == ValidateInstallation(i)
     IN /\ Enter("RegisterDevice", i)
        /\ given' = installation
        /\ IF err # Nil
           THEN /\ result' = Outcome(Empty, Wrap(<<"invalid installation data: %w">>, err))
                /\ UNCHANGED pc
           ELSE /\ result' = NoOutcome
                /\ pc' = [pc EXCEPT ![Client] = "lock"]

\* RegisterDevice from the return of GetToken to HTTPClient.Do
RegisterGotToken ==
  /\ pc[Client] = "done"
  /\ op = "RegisterDevice"
  /\ IF ret[Client].err # Nil
     THEN /\ Fail(Wrap(<<"failed to get SAS token: %w">>, ret[Client].err))
          /\ UNCHANGED arg
     ELSE /\ arg' = [arg EXCEPT !.Platform = SentPlatform(arg)]
          /\ Send(DeviceRequest("PUT", arg.InstallationID, SentPlatform(arg),
                                ret[Client].tok))
  /\ UNCHANGED <<clock, tmVars, ret, pre, checkNow, hit, gen, issued,
                 op, tags, idx, noDevices, responses, outcomes, given, genVars>>

\* a RegisterDevice that returns the installation ID with its errors too
RegisterResultKeepsID(i, answer) ==
  IF answer.err # Nil
  THEN Outcome(i.InstallationID,
               Wrap(<<"failed to send registration: %w">>, answer.err))
  ELSE IF answer.status >= 300
  THEN Outcome(i.InstallationID,
               <<<<"registration failed: installation: %s: %s: %s",
                   Marshal(i), answer.status, answer.body>>>>)
  ELSE Outcome(i.InstallationID, Nil)

\* what RegisterDevice returns for the answer to its request
RegisterResult(i, answer) ==
  IF answer.err # Nil
  THEN Outcome(Empty, Wrap(<<"failed to send registration: %w">>, answer.err))
  ELSE IF answer.status >= 300
  THEN Outcome(Empty, <<<<"registration failed: installation: %s: %s: %s",
                          Marshal(i), answer.status, answer.body>>>>)
  ELSE Outcome(i.InstallationID, Nil)

\* the operation returns what it makes of the answer to its one request
Receive(answer, outcome) ==
  /\ pc[Client] = "await"
  /\ inflight' = Nil
  /\ responses' = Append(responses, answer)
  /\ outcomes' = Append(outcomes, outcome.err)
  /\ result' = outcome
  /\ pc' = [pc EXCEPT ![Client] = "idle"]
  /\ UNCHANGED <<clock, tmVars, ret, pre, checkNow, hit, gen, issued,
                 op, tags, sasToken, idx, noDevices, requests, arg, given, genVars>>

RegisterResponse(answer) ==
  /\ op = "RegisterDevice"
  /\ Receive(answer, RegisterResult(arg, answer))

\* DeviceExists up to the call of GetToken
DeviceExists(installationID) ==
  /\ pc[Client] = "idle"
  /\ issued < MaxIssued
  /\ Enter("DeviceExists", [NoInstallation EXCEPT !.InstallationID = installationID])
  /\ given' = [NoInstallation EXCEPT !.InstallationID = installationID]
  /\ result' = NoOutcome
  /\ pc' = [pc EXCEPT ![Client] = "lock"]

\* DeviceExists from the return of GetToken to HTTPClient.Do
ExistsGotToken ==
  /\ pc[Client] = "done"
  /\ op = "DeviceExists"
  /\ IF ret[Client].err # Nil
     THEN Fail(ret[Client].err)
     ELSE Send(DeviceRequest("GET", arg.InstallationID, Empty, ret[Client].tok))
  /\ UNCHANGED <<clock, tmVars, ret, pre, checkNow, hit, gen, issued,
                 op, tags, idx, noDevices, responses, outcomes, arg, given, genVars>>

\* a DeviceExists that takes every status below 300 for "found"
ExistsResultBelow300(answer) ==
  IF answer.err # Nil
  THEN Outcome(Empty, Wrap(<<"failed to send request: %w">>, answer.err))
  ELSE IF answer.status < 300
  THEN [Outcome(Empty, Nil) EXCEPT !.ok = TRUE]
  ELSE IF answer.status = StatusNotFound
  THEN Outcome(Empty, Nil)
  ELSE Outcome(Empty, <<<<"unexpected response: %s - %v",
                          answer.status, answer.body>>>>)

\* what DeviceExists returns for the answer to its request
ExistsResult(answer) ==
  IF answer.err # Nil
  THEN Outcome(Empty, Wrap(<<"failed to send request: %w">>, answer.err))
  ELSE IF answer.status = 200
  THEN [Outcome(Empty, Nil) EXCEPT !.ok = TRUE]
  ELSE IF answer.status = StatusNotFound
  THEN Outcome(Empty, Nil)
  ELSE Outcome(Empty, <<<<"unexpected response: %s - %v",
                          answer.status, answer.body>>>>)

ExistsResponse(answer) ==
  /\ op = "DeviceExists"
  /\ Receive(answer, ExistsResult(answer))

\* a DeleteDevice that asks for the token before it looks at the ID
DeleteDeviceTokenFirst(installationID) ==
  /\ pc[Client] = "idle"
  /\ issued < MaxIssued
  /\ Enter("DeleteDevice", [NoInstallation EXCEPT !.InstallationID = installationID])
  /\ given' = [NoInstallation EXCEPT !.InstallationID = installationID]
  /\ result' = NoOutcome
  /\ pc' = [pc EXCEPT ![Client] = "lock"]

\* DeleteDevice up to the call of GetToken
DeleteDevice(installationID) ==
  /\ pc[Client] = "idle"
  /\ issued < MaxIssued
  /\ Enter("DeleteDevice", [NoInstallation EXCEPT !.InstallationID = installationID])
  /\ given' = [NoInstallation EXCEPT !.InstallationID = installationID]
  /\ IF installationID = Empty
     THEN /\ result' = Outcome(Empty, <<<<"installation ID cannot be empty">>>>)
          /\ UNCHANGED pc
     ELSE /\ result' = NoOutcome
          /\ pc' = [pc EXCEPT ![Client] = "lock"]

\* DeleteDevice from the return of GetToken to HTTPClient.Do
DeleteGotToken ==
  /\ pc[Client] = "done"
  /\ op = "DeleteDevice"
  /\ IF ret[Client].err # Nil
     THEN Fail(Wrap(<<"failed to get SAS token: %w">>, ret[Client].err))
     ELSE Send(DeviceRequest("DELETE", arg.InstallationID, Empty, ret[Client].tok))
  /\ UNCHANGED <<clock, tmVars, ret, pre, checkNow, hit, gen, issued,
                 op, tags, idx, noDevices, responses, outcomes, arg, given, genVars>>

\* a DeleteDevice that takes every status below 300 for a success
DeleteResultBelow300(answer) ==
  IF answer.err # Nil
  THEN Outcome(Empty, Wrap(<<"failed to send DELETE request: %w">>, answer.err))
  ELSE IF answer.status = StatusNotFound
  THEN Outcome(Empty, Nil)
  ELSE IF answer.status >= 300
  THEN Outcome(Empty, <<<<"unexpected status while deleting device: %s",
                          answer.status>>>>)
  ELSE Outcome(Empty, Nil)

\* a DeleteDevice for which a missing installation is a failure
DeleteResultMissingFails(answer) ==
  IF answer.err # Nil
  THEN Outcome(Empty, Wrap(<<"failed to send DELETE request: %w">>, answer.err))
  ELSE IF answer.status # 200 /\ answer.status # 204
  THEN Outcome(Empty, <<<<"unexpected status while deleting device: %s",
                          answer.status>>>>)
  ELSE Outcome(Empty, Nil)

\* what DeleteDevice returns for the answer to its request
DeleteResult(answer) ==
  IF answer.err # Nil
  THEN Outcome(Empty, Wrap(<<"failed to send DELETE request: %w">>, answer.err))
  ELSE IF answer.status = StatusNotFound
  THEN Outcome(Empty, Nil)
  ELSE IF answer.status # 200 /\ answer.status # 204
  THEN Outcome(Empty, <<<<"unexpected status while deleting device: %s",
                          answer.status>>>>)
  ELSE Outcome(Empty, Nil)

\* a DeleteDevice that sends its request again when the answer is a failure
DeleteResponseRetry(answer) ==
  /\ op = "DeleteDevice"
  /\ IF DeleteResult(answer).err # Nil /\ Len(requests) < 2
     THEN /\ pc[Client] = "await"
          /\ responses' = Append(responses, answer)
          /\ outcomes' = Append(outcomes, DeleteResult(answer).err)
          /\ requests' = Append(requests, inflight)
          /\ UNCHANGED <<clock, tmVars, callVars, op, tags, sasToken, idx,
                         noDevices, inflight, result, arg, given, genVars>>
     ELSE Receive(answer, DeleteResult(answer))

DeleteResponse(answer) ==
  /\ op = "DeleteDevice"
  /\ Receive(answer, DeleteResult(answer))

\* goroutines calling GetToken on one TokenManager, and the clock
Next ==
  \/ Tick
  \/ \E p \in Callers : Call(p)
  \/ \E p \in Callers : GetToken(p)

Spec == Init /\ [][Next]_vars

\* the scheduler runs every goroutine that can take a step, and
\* sync.Mutex hands the lock to a goroutine that keeps waiting for it
Fairness ==
  \A p \in Callers :
    /\ SF_vars(Lock(p))
    /\ WF_vars(Check(p) \/ Generate(p) \/ Store(p) \/ Return(p) \/ Unlock(p))

\* goroutines calling GetToken on one TokenManager at one reading of the clock
NextFair ==
  \/ \E p \in Callers : Call(p)
  \/ \E p \in Callers : GetToken(p)

SpecFair == Init /\ [][NextFair]_vars /\ Fairness

\* ---------------------------------------- GenerateSASToken called directly
\* the arguments of the direct calls
ResourceURIs == {Empty, <<"u">>, <<"a", " ", "b">>, <<"a", "/", "b">>}
KeyNames == {Empty, <<"k">>, <<"s", "e", "=">>}
Keys == {Empty, <<"s", "=">>}
GenArgs ==
  [resourceUri : ResourceURIs, keyName : KeyNames, key : Keys,
   duration : Validities]

InitGen ==
  InitManager /\ args \in GenArgs /\ config = NoConfig
  /\ notification = NoNotification

\* one call of GenerateSASToken with the arguments args
Issue ==
  /\ Len(issues) < MaxDirect
  /\ issues' = Append(issues,
                      [now |-> clock,
                       out |-> GenerateSASToken(args.resourceUri, args.keyName,
                                                args.key, args.duration, clock)])
  /\ UNCHANGED <<clock, tmVars, callVars, sendVars, args, config, validation,
                 notification, payloads>>

\* a program calling GenerateSASToken with the same arguments, and the clock
NextGen ==
  \/ Tick
  \/ Issue

SpecGen == InitGen /\ [][NextGen]_vars

\* ------------------------------------------- Configuration.Validate called
\* connection strings: the format of the documentation; one without ";";
\* one whose third part is no key; one whose endpoint has no scheme; the
\* parts in another order with a port in the endpoint and a ";" at the end
WellFormed ==
  EndpointPrefix \o <<"s", "b", ":", "/", "/", "m">> \o ServiceBusDomain
  \o <<"/", ";">> \o KeyNamePrefix \o <<"j", ";">> \o KeyPrefix \o <<"t", "=">>
OnePart == <<"i", "n", "v", "a", "l", "i", "d">>
NoKey ==
  EndpointPrefix \o <<"s", "b", ":", "/", "/", "m">> \o ServiceBusDomain
  \o <<"/", ";">> \o KeyNamePrefix \o <<"j", ";", "x">>
BadEndpoint ==
  EndpointPrefix \o <<":", "/", "/", "m", ";">> \o KeyNamePrefix
  \o <<"j", ";">> \o KeyPrefix \o <<"t">>
Reordered ==
  KeyPrefix \o <<"t", ";">> \o KeyNamePrefix \o <<"j", ";">> \o EndpointPrefix
  \o <<"s", "b", ":", "/", "/", "m">> \o ServiceBusDomain
  \o <<":", "4", "4", "3", ";">>
ConnectionStrings == {Empty, WellFormed, OnePart, NoKey, BadEndpoint, Reordered}
\* the configurations Validate is called on
ConfigInputs ==
  [Namespace : {Empty, <<"n">>}, HubName : {Empty, <<"h">>},
   KeyName : {Empty, <<"k">>}, KeyValue : {Empty, <<"s", "=">>},
   TokenValidity : {0 - Second, 0, Second},
   ConnectionString : ConnectionStrings]

InitConfig ==
  InitManager /\ args = NoArgs /\ config \in ConfigInputs
  /\ notification = NoNotification

\* cfg.Validate() on the configuration the caller holds
ValidateConfig ==
  /\ ~validation.done
  /\ validation' = [done |-> TRUE, err |-> Validate(config), before |-> config]
  /\ config' = parseConnectionString(config).cfg
  /\ UNCHANGED <<clock, tmVars, callVars, sendVars, args, issues,
                 notification, payloads>>

\* a program validating one configuration, and the clock
NextConfig ==
  \/ Tick
  \/ ValidateConfig

SpecConfig == InitConfig /\ [][NextConfig]_vars

\* ------------------------------------------------- the payload of a send
\* JSON values: a string and an object (a map from keys to JSON values)
Str(s) == <<"str", s>>
Obj(f) == <<"obj", f>>
\* the map without keys
NoData == [k \in {} |-> Str(Empty)]
\* json.Marshal of a notificationMessage
MessageJSON(msg) ==
  Obj([k \in {"title", "body"} |->
         IF k = "title" THEN Str(msg.Title) ELSE Str(msg.Body)])
\* maps.Copy(dst, src): every key of src is written into dst
MapsCopy(dst, src) ==
  [k \in DOMAIN dst \cup DOMAIN src |->
     IF k \in DOMAIN src THEN src[k] ELSE dst[k]]

\* a copy in which the keys that dst has already are kept
MapsCopyKeep(dst, src) ==
  [k \in DOMAIN dst \cup DOMAIN src |->
     IF k \in DOMAIN dst THEN dst[k] ELSE src[k]]

\* the Apple payload with the custom data under the generated aps
ApplePayloadKeepsAps(msg, data) ==
  Obj(MapsCopyKeep([k \in {"aps"} |-> Obj([a \in {"alert"} |-> MessageJSON(msg)])],
                   data))

\* json.Marshal of the appleNotificationWithData of a send
ApplePayload(msg, data) ==
  Obj(MapsCopy([k \in {"aps"} |-> Obj([a \in {"alert"} |-> MessageJSON(msg)])],
               data))

\* the Android payload with the custom data next to notification
AndroidPayloadMerged(msg, data) ==
  Obj(MapsCopy([k \in {"notification"} |-> MessageJSON(msg)], data))

\* json.Marshal of the androidNotificationWithData of a send: the field
\* data is omitted when the map is empty
AndroidPayload(msg, data) ==
  Obj([k \in IF DOMAIN data = {} THEN {"notification"}
              ELSE {"notification", "data"} |->
         IF k = "notification" THEN MessageJSON(msg) ELSE Obj(data)])

\* the switch of sendPlatformNotification: the payload and the error
BuildPayload(platform, msg, data) ==
  IF platform = applePlatform
  THEN [payload |-> ApplePayload(msg, data), err |-> Nil]
  ELSE IF platform = gcmPlatform \/ platform = fcmV1Platform
  THEN [payload |-> AndroidPayload(msg, data), err |-> Nil]
  ELSE [payload |-> Obj(NoData),
        err |-> <<<<"unsupported platform: %s", platform>>>>]

\* the custom data of the notifications: every map from some of these keys
CustomKeys == {"aps", "alert", "notification", "data", "k"}
CustomData ==
  UNION {[keys -> {Str(<<"v">>)}] : keys \in SUBSET CustomKeys}
Notifications ==
  [Title : {Empty, <<"T">>}, Body : {<<"B">>}, Data : CustomData]

InitPayload ==
  InitManager /\ args = NoArgs /\ config = NoConfig
  /\ notification \in Notifications

\* sendPlatformNotification builds the payload for one platform
Build(platform) ==
  /\ payloads[platform] = NotBuilt
  /\ payloads' =
       [payloads EXCEPT ![platform] =
          BuildPayload(platform,
                       [Title |-> notification.Title, Body |-> notification.Body],
                       notification.Data)]
  /\ UNCHANGED <<clock, tmVars, callVars, sendVars, args, issues, config,
                 validation, notification>>

\* a program building the payloads of one notification, and the clock
NextPayload ==
  \/ Tick
  \/ \E platform \in PayloadPlatforms : Build(platform)

SpecPayload == InitPayload /\ [][NextPayload]_vars

\* one goroutine calling Client.SendNotification, and the clock
NextSend ==
  \/ Tick
  \/ GetToken(Client)
  \/ \E tgs \in TagLists : SendNotification(tgs)
  \/ SendGotToken
  \/ SendRequest
  \/ \E answer \in Answers : SendResponse(answer)

SpecSend == Init /\ [][NextSend]_vars

\* the answers to the platform requests when every operation is called
ClientAnswers ==
  {a \in DeviceAnswers : a.status \in {0, 200, 201, 204, StatusNotFound, 500}}

\* one goroutine calling the operations of a Client, and the clock
NextClient ==
  \/ Tick
  \/ GetToken(Client)
  \/ \E tgs \in TagLists : SendNotification(tgs)
  \/ SendGotToken
  \/ SendRequest
  \/ \E answer \in ClientAnswers : SendResponse(answer)
  \/ \E installation \in Installations, uuid \in UUIDs :
       RegisterDevice(installation, uuid)
  \/ RegisterGotToken
  \/ \E answer \in DeviceAnswers : RegisterResponse(answer)
  \/ \E installationID \in InstallationIDs : DeviceExists(installationID)
  \/ ExistsGotToken
  \/ \E answer \in DeviceAnswers : ExistsResponse(answer)
  \/ \E installationID \in InstallationIDs : DeleteDevice(installationID)
  \/ DeleteGotToken
  \/ \E answer \in DeviceAnswers : DeleteResponse(answer)

SpecClient == Init /\ [][NextClient]_vars
\* the answers to the requests of a Client that shares its TokenManager
SharedAnswers == {a \in DeviceAnswers : a.status \in {0, 200}}
SharedInstallations ==
  {i \in Installations :
     /\ i.InstallationID # Empty
     /\ i.Platform = InstallationFCM
     /\ i.PushChannel # Empty}
\* the goroutine that calls GetToken beside the Client
Bystander == 1

\* one goroutine calling the operations of a Client while other goroutines
\* call GetToken on the TokenManager of that Client, and the clock
NextShared ==
  \/ Tick
  \/ Call(Bystander)
  \/ GetToken(Bystander)
  \/ GetToken(Client)
  \/ SendNotification(<<>>)
  \/ SendGotToken
  \/ SendRequest
  \/ \E answer \in SharedAnswers : SendResponse(answer)
  \/ \E installation \in SharedInstallations, uuid \in UUIDs :
       RegisterDevice(installation, uuid)
  \/ RegisterGotToken
  \/ \E answer \in SharedAnswers : RegisterResponse(answer)
  \/ DeviceExists(<<"d">>)
  \/ ExistsGotToken
  \/ \E answer \in SharedAnswers : ExistsResponse(answer)
  \/ DeleteDevice(<<"d">>)
  \/ DeleteGotToken
  \/ \E answer \in SharedAnswers : DeleteResponse(answer)

SpecShared == Init /\ [][NextShared]_vars

\* ------------------------------------------------------- the token cache
\* a goroutine that holds the result of its call and still holds the mutex
AtReturn(p) == pc[p] = "unlock"
\* GetToken's step from the return statement to the deferred Unlock
Returns(p) == pc[p] = "return" /\ pc'[p] = "unlock"
Valid == Validate(cfg) = Nil
\* the window of a cached token: up to and including expiresAt - margin
InWindow(p) == pre[p][1] # Empty /\ checkNow[p] <= pre[p][2] - Margin
PastWindow(p) == pre[p][1] # Empty /\ checkNow[p] > pre[p][2] - Margin

\* C1 as stated: a call invokes GenerateSASToken exactly when the cache was
\* empty or its expiry check read a clock at or past expiresAt - margin,
\* the boundary instant included.
C1_IssuesAtOrPastBoundary ==
  \A p \in Procs :
    AtReturn(p) =>
      (gen[p] = 1 <=> (pre[p][1] = Empty \/ checkNow[p] >= pre[p][2] - Margin))

\* C1 amended: a call invokes GenerateSASToken exactly when the cache was
\* empty or its expiry check read a clock strictly after expiresAt - margin;
\* at the boundary instant now = expiresAt - margin it issues nothing.
C1_IssuesIffStrictlyAfter ==
  \A p \in Procs :
    AtReturn(p) =>
      (gen[p] = 1 <=> (pre[p][1] = Empty \/ checkNow[p] > pre[p][2] - Margin))

\* a call whose expiry check fell on the boundary instant has ended
\* without issuing
C1_Witness ==
  \E p \in Procs :
    /\ AtReturn(p)
    /\ pre[p][1] # Empty
    /\ checkNow[p] = pre[p][2] - Margin
    /\ gen[p] = 0

\* C2 as stated: with a validated configuration, a call made after the
\* window of the cached token returns a token different from that token.
C2_DifferentAfterWindow ==
  \A p \in Procs :
    (Valid /\ AtReturn(p) /\ PastWindow(p)) => ret[p].tok # pre[p][1]

\* C2 amended: with a validated configuration, two calls inside the window
\* of the same cached token return byte-identical tokens; a call after the
\* window returns a newly issued token whose se is not before the old se,
\* and which differs from the old token exactly when the se differs (two
\* issuances with the same se give the same bytes).
C2_SameInsideWindowNewAfter ==
  /\ \A p, q \in Procs :
       (/\ Valid
        /\ pc[p] \in {"unlock", "done"} /\ pc[q] \in {"unlock", "done"}
        /\ InWindow(p) /\ InWindow(q)
        /\ pre[p] = pre[q])
       => (ret[p].err = Nil /\ ret[p] = ret[q] /\ ret[p].tok = pre[p][1])
  /\ \A p \in Procs :
       (Valid /\ AtReturn(p) /\ PastWindow(p))
       => /\ ret[p].err = Nil
          /\ gen[p] = 1
          /\ ret[p].tok = token
          /\ TokenSE(ret[p].tok) >= TokenSE(pre[p][1])
          /\ (ret[p].tok = pre[p][1]
                <=> TokenSE(ret[p].tok) = TokenSE(pre[p][1]))

\* one goroutine has returned from a call inside the window and another
\* from a later call past it, with a token that differs
C2_Witness ==
  \E p, q \in Procs :
    /\ Valid
    /\ pc[p] = "done" /\ InWindow(p)
    /\ AtReturn(q) /\ PastWindow(q)
    /\ pre[q][1] = ret[p].tok
    /\ ret[q].tok # ret[p].tok

\* the goroutines between Lock and Unlock
InCritical == {p \in Procs : pc[p] \in {"check", "generate", "store", "return", "unlock"}}
AllDone == \A p \in Callers : pc[p] = "done"

\* C3 as stated: at most one goroutine is between the expiry check and
\* the store, and with the clock held fixed the callers of an empty cache
\* cause exactly one issuance and all receive the same token.
C3_OneIssuanceAtFixedClock ==
  /\ Cardinality(InCritical) <= 1
  /\ (Valid /\ clock = 0 /\ AllDone)
     => /\ issued = 1
        /\ \A p, q \in Callers : ret[p] = ret[q]

\* C3 amended: at most one goroutine is between the expiry check and the
\* store, and with the clock held fixed all callers of an empty cache
\* receive the same token; there is exactly one issuance when
\* TokenValidity is at least the margin, and one issuance per call when
\* it is shorter.
C3_MutexAndSameTokenAtFixedClock ==
  /\ Cardinality(InCritical) <= 1
  /\ \A p \in InCritical : mutex = p
  /\ (Valid /\ clock = 0 /\ AllDone)
     => /\ \A p, q \in Callers : ret[p] = ret[q] /\ ret[p].tok = token
        /\ cfg.TokenValidity >= Margin => issued = 1
        /\ cfg.TokenValidity < Margin => issued >= NumCallers

\* every caller has returned at the initial clock reading, one issuance
C3_Witness ==
  /\ Valid /\ clock = 0 /\ AllDone
  /\ cfg.TokenValidity >= Margin
  /\ issued = 1
  /\ token # Empty

C5_MarginLeftAtReturn ==
  [][\A p \in Procs :
       (Valid /\ Returns(p)) => TokenSE(token) * Second - clock >= Margin]_vars

\* C5 amended: a token returned without a refresh had, at the clock
\* reading of the call's expiry check, at least the margin left before the
\* cached expiresAt; a token the call has just issued has at most
\* TokenValidity left before its se when it is returned, and more than
\* TokenValidity minus one second counted from the expiry check, so it
\* has the margin only when TokenValidity covers it.
C5_MarginAtCheckOnHit ==
  [][\A p \in Procs :
       (Valid /\ Returns(p)) =>
         /\ hit[p] => (gen[p] = 0 /\ checkNow[p] + Margin <= expiresAt)
         /\ ~hit[p] =>
              /\ gen[p] = 1
              /\ TokenSE(token) * Second <= clock + cfg.TokenValidity
              /\ TokenSE(token) * Second > checkNow[p] + cfg.TokenValidity - Second]_vars

\* a newly issued token is returned with less than the margin left
C5_Witness ==
  \E p \in Procs :
    /\ Valid /\ AtReturn(p) /\ gen[p] = 1
    /\ ret[p].tok = token /\ token # Empty
    /\ TokenSE(token) * Second - clock < Margin

\* C6: a call that finds a token in the cache with the clock not past
\* expiresAt - margin returns that token and no error, leaves token and
\* expiresAt as they were, and does not invoke GenerateSASToken.
C6_HitLeavesCache ==
  \A p \in Procs :
    (AtReturn(p) /\ InWindow(p)) =>
      /\ ret[p] = [tok |-> pre[p][1], err |-> Nil]
      /\ token = pre[p][1]
      /\ expiresAt = pre[p][2]
      /\ gen[p] = 0

\* a call has hit the cache some time after the token was stored
C6_Witness ==
  \E p \in Procs :
    /\ AtReturn(p) /\ InWindow(p)
    /\ checkNow[p] > pre[p][2] - cfg.TokenValidity

\* C7: when GenerateSASToken fails inside GetToken, the call returns the
\* error with an empty token, and token and expiresAt are what they were
\* when the call took the mutex.
C7_FailureLeavesCache ==
  \A p \in Procs :
    (AtReturn(p) /\ ret[p].err # Nil) =>
      /\ ret[p].tok = Empty
      /\ gen[p] = 1
      /\ token = pre[p][1]
      /\ expiresAt = pre[p][2]

\* a call has failed in GenerateSASToken
C7_Witness ==
  \E p \in Procs : AtReturn(p) /\ ret[p].err # Nil /\ gen[p] = 1
\* -------------------------------------------------------- send, per call
\* strings.Contains(s, sub)
Contains(s, sub) ==
  \E i \in 0..(Len(s) - Len(sub)) : SubSeq(s, i + 1, i + Len(sub)) = sub

Returned == op = "SendNotification" /\ result.returned
Answered(i) == responses[i].err = Nil
NoDevice(i) == Answered(i) /\ responses[i].status \in {404, 410}
Success(i) == Answered(i) /\ responses[i].status < 300
HardError(i) == Answered(i) /\ responses[i].status >= 300 /\ ~NoDevice(i)
\* request i went to platform i of the fixed order, one request each
InOrder ==
  /\ Len(requests) <= Len(availablePlatforms)
  /\ \A i \in 1..Len(requests) : requests[i].platform = availablePlatforms[i]

\* C8: when every platform has answered 404 or 410, SendNotification has
\* sent one request to each platform of availablePlatforms and returns an
\* error that errors.Is errDeviceNotFound and whose message holds every
\* requested tag.
C8_AllMissingIsNoDeviceFound ==
  (/\ Returned
   /\ responses # <<>>
   /\ \A i \in 1..Len(responses) : NoDevice(i))
  => /\ Len(responses) = Len(availablePlatforms)
     /\ Len(requests) = Len(availablePlatforms)
     /\ InOrder
     /\ result.err # Nil
     /\ ErrorsIs(result.err, errDeviceNotFound)
     /\ \A k \in 1..Len(tags) : Contains(result.err[1][2], tags[k])

\* a send with two tags has returned after a 404 and a 410 from the
\* first two platforms and a 404 from the third
C8_Witness ==
  /\ Returned
  /\ Len(tags) = 2
  /\ Len(responses) = 3
  /\ NoDevice(1) /\ NoDevice(2) /\ NoDevice(3)
  /\ responses[1].status = 404 /\ responses[2].status = 410

\* C9: when at least one platform has answered with success and every
\* other one 404 or 410, SendNotification has tried every platform and
\* returns nil, wherever the success is in the order.
C9_OneSuccessIsSuccess ==
  (/\ Returned
   /\ responses # <<>>
   /\ \A i \in 1..Len(responses) : NoDevice(i) \/ Success(i)
   /\ \E i \in 1..Len(responses) : Success(i))
  => /\ result.err = Nil
     /\ Len(responses) = Len(availablePlatforms)
     /\ InOrder
     /\ noDevices = Cardinality({i \in 1..Len(responses) : NoDevice(i)})

\* a send has returned nil with its only success from the last platform
C9_Witness ==
  /\ Returned
  /\ Len(responses) = 3
  /\ NoDevice(1) /\ NoDevice(2) /\ Success(3)
  /\ result.err = Nil

\* C10: the answer of a platform with a status >= 300 other than 404 and
\* 410 is the last of the call: SendNotification has returned the error
\* of that platform, status and body, and no request has gone to a later
\* platform.
C10_HardErrorEndsSend ==
  \A i \in 1..Len(responses) :
    (op = "SendNotification" /\ HardError(i)) =>
      /\ i = Len(responses)
      /\ Len(requests) = i
      /\ InOrder
      /\ inflight = Nil
      /\ Returned
      /\ pc[Client] = "idle"
      /\ result.err =
           <<<<"failed to send %s notification with status: %d and body: %s",
               availablePlatforms[i], responses[i].status, responses[i].body>>>>

\* the second platform has answered 500 after a success of the first
C10_Witness ==
  /\ Len(responses) = 2
  /\ Success(1)
  /\ responses[2].err = Nil /\ responses[2].status = 500
  /\ Returned

\* the error of a platform that answered with a hard status
PlatformError(platform, answer) ==
  <<<<"failed to send %s notification with status: %d and body: %s",
      platform, answer.status, answer.body>>>>

\* C11: once a platform has answered with a status >= 300 other than 404
\* and 410 (500 among them), SendNotification has returned, and what it
\* returned is neither nil nor an error that errors.Is errDeviceNotFound
\* but the error naming that platform and that status, whatever the
\* earlier platforms answered.
C11_HardStatusIsPlatformError ==
  op = "SendNotification" =>
    \A i \in 1..Len(responses) :
      HardError(i) =>
        /\ result.returned
        /\ result.err # Nil
        /\ ~ErrorsIs(result.err, errDeviceNotFound)
        /\ result.err = PlatformError(requests[i].platform, responses[i])

\* the third platform has answered 500 after a 404 of the first and a
\* success of the second, and the call has returned
C11_Witness ==
  /\ Returned
  /\ Len(responses) = 3
  /\ NoDevice(1) /\ Success(2)
  /\ HardError(3) /\ responses[3].status = 500

\* attempt j failed otherwise than by a 404 or a 410: the transport
\* failed, or the status is a hard one
HardFailure(j) == responses[j].err # Nil \/ HardError(j)

\* C12: an attempt answered 404 or 410 is counted in noDevices and does
\* not end SendNotification: after it the call goes on to the next
\* platform, and when the call has returned, every platform has had its
\* request unless an attempt after it failed with something other than
\* 404 or 410.
C12_NoDeviceIsCountedAndLoopGoesOn ==
  op = "SendNotification" =>
    /\ noDevices = Cardinality({i \in 1..Len(responses) : NoDevice(i)})
    /\ \A i \in 1..Len(responses) :
         NoDevice(i) =>
           /\ (i = Len(responses) /\ i < Len(availablePlatforms))
                => /\ ~result.returned
                   /\ pc[Client] \in {"send", "await"}
                   /\ idx = i + 1
           /\ pc[Client] = "await" => Len(requests) > i
           /\ result.returned
                => \/ Len(requests) = Len(availablePlatforms) /\ InOrder
                   \/ \E j \in (i + 1)..Len(responses) : HardFailure(j)

\* the first platform has answered 410 and the request to the second
\* platform is in flight
C12_Witness ==
  /\ op = "SendNotification"
  /\ Len(responses) = 1
  /\ NoDevice(1) /\ responses[1].status = 410
  /\ noDevices = 1
  /\ Len(requests) = 2
  /\ inflight # Nil
  /\ inflight.platform = gcmPlatform

\* the kind of what one attempt returned
Class(err) ==
  IF err = Nil THEN "success"
  ELSE IF ErrorsIs(err, errDeviceNotFound) THEN "NoDeviceFound"
  ELSE "PlatformError"

\* the kind that the status of an answer calls for
StatusClass(status) ==
  IF status \in {404, 410} THEN "NoDeviceFound"
  ELSE IF status >= 300 THEN "PlatformError"
  ELSE "success"

\* C13: what an attempt returns for an answered request depends on the
\* status alone: 404 and 410 give an error that errors.Is
\* errDeviceNotFound, every other status >= 300 gives the error that
\* holds the platform, the status and the body, a 2xx status gives nil;
\* the body changes the kind of none.
C13_ClassifiedByStatusAlone ==
  op = "SendNotification" =>
    /\ Len(outcomes) = Len(responses)
    /\ \A i \in 1..Len(responses) :
         Answered(i) =>
           /\ Class(outcomes[i]) = StatusClass(responses[i].status)
           /\ Class(outcomes[i]) = "PlatformError"
                => outcomes[i] = PlatformError(availablePlatforms[i], responses[i])
           /\ Class(outcomes[i]) = "NoDeviceFound"
                => outcomes[i][1][2] = availablePlatforms[i]

\* three attempts answered 299, then 404 with an empty body, then 300
C13_Witness ==
  /\ op = "SendNotification"
  /\ Len(responses) = 3
  /\ Answered(1) /\ responses[1].status = 299
  /\ Answered(2) /\ responses[2].status = 404 /\ responses[2].body = Empty
  /\ Answered(3) /\ responses[3].status = 300
  /\ Class(outcomes[1]) = "success"
  /\ Class(outcomes[2]) = "NoDeviceFound"
  /\ Class(outcomes[3]) = "PlatformError"

\* the platforms the hub is configured with: apple, gcm and fcmV1
ConfiguredPlatforms == {applePlatform, gcmPlatform, fcmV1Platform}

\* the requests so far that went to one platform
RequestsTo(platform) ==
  {i \in 1..Len(requests) : requests[i].platform = platform}

DeviceOps == {"RegisterDevice", "DeviceExists", "DeleteDevice"}

\* C15: nothing is tried twice: one call of SendNotification has sent at
\* most one request to each platform, one call of RegisterDevice,
\* DeviceExists or DeleteDevice has sent at most one request and has
\* returned once that request is answered or has failed, and one call
\* of GetToken has called GenerateSASToken at most once.
C15_NoRetries ==
  /\ op = "SendNotification"
       => /\ Len(requests) <= Cardinality(ConfiguredPlatforms)
          /\ \A platform \in ConfiguredPlatforms :
               Cardinality(RequestsTo(platform)) <= 1
  /\ op \in DeviceOps
       => /\ Len(requests) <= 1
          /\ Len(responses) = 1 => result.returned /\ pc[Client] = "idle"
  /\ Len(responses) <= Len(requests)
  /\ Len(requests) <= Len(responses) + 1
  /\ result.returned => inflight = Nil /\ Len(requests) = Len(responses)
  /\ \A p \in Procs : gen[p] <= 1

\* DeleteDevice has returned the error of a 500 after its one request,
\* sent with a token that its GetToken call generated
C15_Witness ==
  /\ op = "DeleteDevice"
  /\ result.returned /\ result.err # Nil
  /\ Len(requests) = 1
  /\ Len(responses) = 1
  /\ responses[1].err = Nil /\ responses[1].status = 500
  /\ gen[Client] = 1

\* ----------------------------------------------------- GenerateSASToken
\* the direct calls so far
Issues == 1..Len(issues)
MissingParameter ==
  args.resourceUri = Empty \/ args.keyName = Empty \/ args.key = Empty

\* C16: a call of GenerateSASToken with an empty resourceUri, keyName or
\* key has returned the empty token and the error "missing required
\* parameter"; a call with none of the three empty has returned a token
\* and no error.
C16_EmptyParameterFails ==
  \A k \in Issues :
    /\ MissingParameter
         => /\ issues[k].out.err = <<<<"missing required parameter">>>>
            /\ issues[k].out.tok = Empty
    /\ ~MissingParameter
         => /\ issues[k].out.err = Nil
            /\ issues[k].out.tok # Empty

\* a call with an empty key and the other parameters set has failed
C16_Witness ==
  /\ Issues # {}
  /\ args.key = Empty
  /\ args.resourceUri # Empty
  /\ args.keyName # Empty
  /\ issues[1].out.err # Nil

\* the names of the four fields of a token, in the order of the format
Fields == <<<<"s", "r", "=">>, <<"s", "i", "g", "=">>, <<"s", "e", "=">>,
           <<"s", "k", "n", "=">>>>
\* the fields come in the order sr=, sig=, se=, skn=
FieldsInOrder(text) ==
  /\ Index(text, Fields[1]) > 0
  /\ \A f \in 1..3 : Index(text, Fields[f]) < Index(text, Fields[f + 1])

\* C17 as stated: every token starts with the scheme, holds exactly one
\* each of sr=, sig=, se= and skn= in that order, and its se is the Unix
\* time of the call plus the validity in seconds.
C17_OneOfEachAndSeIsNowPlusValidity ==
  \A k \in Issues :
    ~MissingParameter =>
      LET text == TokenText(issues[k].out.tok)
      IN /\ StartsWith(text, Scheme)
         /\ \A f \in 1..4 : Count(text, Fields[f]) = 1
         /\ FieldsInOrder(text)
         /\ TokenSE(issues[k].out.tok)
              = Unix(issues[k].now) + (args.duration \div Second)

\* C17: every token starts with the scheme and holds sr=, sig=, se= and
\* skn= in that order, each exactly once before the key name and once
\* more for every time the key name, which is copied as it is, contains
\* it; its se is the Unix time of the instant the validity after the
\* call, which is the Unix time of the call plus the validity in seconds
\* when the validity is a whole number of seconds.
C17_FieldsOnceOutsideKeyNameAndSeIsUnixOfSum ==
  \A k \in Issues :
    ~MissingParameter =>
      LET text == TokenText(issues[k].out.tok)
      IN /\ StartsWith(text, Scheme)
         /\ \A f \in 1..4 :
              Count(text, Fields[f]) = 1 + Count(args.keyName, Fields[f])
         /\ FieldsInOrder(text)
         /\ TokenSE(issues[k].out.tok) = Unix(issues[k].now + args.duration)
         /\ args.duration % Second = 0
              => TokenSE(issues[k].out.tok)
                   = Unix(issues[k].now) + (args.duration \div Second)

\* a token issued half a second after a full second, for a validity of one
\* tick and a key name that contains se=
C17_Witness ==
  /\ Issues # {}
  /\ ~MissingParameter
  /\ issues[1].now % Second # 0
  /\ args.duration % Second # 0
  /\ Count(args.keyName, Fields[3]) = 1
  /\ Count(TokenText(issues[1].out.tok), Fields[3]) = 2
  /\ TokenSE(issues[1].out.tok) = Unix(issues[1].now) + 1

\* the string a token's signature was computed over
SignedString(tok) == tok[4][2][2][3]
\* its part before the newline
SignedURI(tok) ==
  SubSeq(SignedString(tok), 1, Index(SignedString(tok), <<"\n">>) - 1)
\* s holds one %20 for every space of raw and no "+"
SpacesAsPercent20(s, raw) ==
  /\ Count(s, <<"+">>) = 0
  /\ Count(s, <<"%", "2", "0">>) = Count(raw, <<" ">>)

\* C18: in the sr field of every token and in the string that was
\* signed, every space of the resource URI is %20 and there is no "+".
C18_SpaceIsPercent20 ==
  \A k \in Issues :
    ~MissingParameter =>
      /\ SpacesAsPercent20(issues[k].out.tok[2], args.resourceUri)
      /\ SpacesAsPercent20(SignedURI(issues[k].out.tok), args.resourceUri)

\* a decimal integer without padding: digits only after an optional
\* minus sign, and no leading zero unless it is the number 0
Unpadded(s) ==
  LET d == IF s # <<>> /\ Head(s) = "-" THEN Tail(s) ELSE s
  IN /\ d # <<>>
     /\ \A i \in 1..Len(d) : \E n \in 1..10 : Digits[n] = d[i]
     /\ Len(d) > 1 => d[1] # "0"

\* C19: the string that was signed is the sr field of the token, one
\* newline, and the se field of the token, which is the expiry in decimal
\* without padding.
C19_SignsSrNewlineSe ==
  \A k \in Issues :
    ~MissingParameter =>
      LET tok == issues[k].out.tok
      IN /\ SignedString(tok) = tok[2] \o <<"\n">> \o tok[6]
         /\ Count(SignedString(tok), <<"\n">>) = 1
         /\ Unpadded(tok[6])
         /\ ParseDecimal(tok[6]) = Unix(issues[k].now + args.duration)

\* the token for "a/b" that expires at second 300 was signed over
\* "a%2Fb", a newline and "300"
C19_Witness ==
  /\ Issues # {}
  /\ ~MissingParameter
  /\ args.resourceUri = <<"a", "/", "b">>
  /\ SignedString(issues[1].out.tok)
       = <<"a", "%", "2", "F", "b", "\n", "3", "0", "0">>

\* C20 as stated: two calls with the same arguments whose clock readings
\* lie in the same second have returned the same token.
C20_SameSecondSameToken ==
  \A j, k \in Issues :
    Unix(issues[j].now) = Unix(issues[k].now)
      => issues[j].out = issues[k].out

\* C20: a call of GenerateSASToken changes nothing but its own result:
\* the TokenManager, the calls in progress and the clock are as before;
\* and two calls with the same arguments have returned the same token and
\* error whenever the instants one validity after their clock readings
\* lie in the same second, which for a validity of whole seconds is
\* whenever the clock readings themselves lie in the same second.
C20_PureAndSameExpirySecondSameToken ==
  [][/\ issues' # issues => UNCHANGED <<clock, tmVars, callVars, sendVars, args>>
     /\ \A j, k \in 1..Len(issues') :
          /\ Unix(issues'[j].now + args.duration)
               = Unix(issues'[k].now + args.duration)
               => issues'[j].out = issues'[k].out
          /\ (/\ args.duration % Second = 0
              /\ Unix(issues'[j].now) = Unix(issues'[k].now))
               => issues'[j].out = issues'[k].out]_vars

\* two calls for a validity of one second, at the start of a second and
\* half a second later, have returned the same token
C20_Witness ==
  /\ Len(issues) = 2
  /\ ~MissingParameter
  /\ args.duration = Second
  /\ issues[1].now # issues[2].now
  /\ Unix(issues[1].now) = Unix(issues[2].now)
  /\ issues[1].out.tok = issues[2].out.tok
  /\ issues[1].out.tok # Empty

\* ------------------------------------------------- the device operations
\* the statuses the gateway uses for a success
SuccessStatuses == {200, 201, 204}
\* request i was answered with one of them
AnsweredSuccess(i) == Answered(i) /\ responses[i].status \in SuccessStatuses

\* C21 as stated: whatever the operation, a request answered 200, 201 or
\* 204 has produced no error.
C21_200_201_204AreSuccess ==
  \A i \in 1..Len(responses) : AnsweredSuccess(i) => outcomes[i] = Nil

\* C21: a request answered 200, 201 or 204 has produced no error when it
\* was sent by RegisterDevice or by a platform attempt of
\* SendNotification; sent by DeleteDevice it has produced no error for
\* 200 and 204 and the error "unexpected status" for 201; sent by
\* DeviceExists it has produced no error for 200 only and the error
\* "unexpected response" for 201 and 204.
C21_SuccessStatusesPerOperation ==
  \A i \in 1..Len(responses) :
    AnsweredSuccess(i) =>
      /\ op \in {"RegisterDevice", "SendNotification"} => outcomes[i] = Nil
      /\ op = "DeleteDevice"
           => outcomes[i] =
                IF responses[i].status = 201
                THEN <<<<"unexpected status while deleting device: %s", 201>>>>
                ELSE Nil
      /\ op = "DeviceExists"
           => outcomes[i] =
                IF responses[i].status = 200
                THEN Nil
                ELSE <<<<"unexpected response: %s - %v",
                        responses[i].status, responses[i].body>>>>
      /\ op \in DeviceOps => result.returned /\ result.err = outcomes[i]

\* DeleteDevice has returned an error for the answer 201
C21_Witness ==
  /\ op = "DeleteDevice"
  /\ Len(responses) = 1
  /\ Answered(1) /\ responses[1].status = 201
  /\ result.returned
  /\ result.err # Nil

\* C22: whenever the gateway has answered 404 to the DELETE request of
\* DeleteDevice, for an installation that never existed or was deleted
\* before, DeleteDevice has returned nil after that one request for the
\* installation ID it was given.
C22_DeleteOfMissingIsNil ==
  (/\ op = "DeleteDevice"
   /\ Len(responses) = 1
   /\ Answered(1)
   /\ responses[1].status = StatusNotFound)
  => /\ result.returned
     /\ result.err = Nil
     /\ Len(requests) = 1
     /\ requests[1].method = "DELETE"
     /\ requests[1].id = arg.InstallationID
     /\ arg.InstallationID # Empty

\* a DeleteDevice that is not the first operation of the Client (its
\* GetToken found the token of an earlier operation) has returned nil for
\* a 404
C22_Witness ==
  /\ op = "DeleteDevice"
  /\ hit[Client]
  /\ Len(responses) = 1
  /\ Answered(1) /\ responses[1].status = StatusNotFound
  /\ result.returned /\ result.err = Nil

\* C23: once its request is answered or has failed, DeviceExists has
\* returned (true, nil) for the status 200, (false, nil) for 404, and
\* false with an error for every other status and for a failed transport.
C23_ExistsOnlyOn200 ==
  (op = "DeviceExists" /\ Len(responses) = 1)
  => /\ result.returned
     /\ (Answered(1) /\ responses[1].status = 200)
          => result.ok /\ result.err = Nil
     /\ (Answered(1) /\ responses[1].status = StatusNotFound)
          => ~result.ok /\ result.err = Nil
     /\ (Answered(1) /\ responses[1].status \notin {200, StatusNotFound})
          => ~result.ok /\ result.err # Nil
     /\ ~Answered(1)
          => /\ ~result.ok
             /\ result.err = Wrap(<<"failed to send request: %w">>, responses[1].err)

\* DeviceExists has returned false and an error for the answer 204
C23_Witness ==
  /\ op = "DeviceExists"
  /\ Len(responses) = 1
  /\ Answered(1) /\ responses[1].status = 204
  /\ result.returned
  /\ ~result.ok
  /\ result.err # Nil

\* RegisterDevice got an answer with a status below 300
Registered ==
  /\ op = "RegisterDevice"
  /\ Len(responses) = 1
  /\ Answered(1)
  /\ responses[1].status < 300

\* C24: when RegisterDevice has returned after an answer with a status
\* below 300, it has returned no error and the installation ID of the
\* path of its PUT request, which is not empty and is the caller's
\* InstallationID when the caller gave one and a generated UUID when not;
\* when it has returned after anything else, it has returned the empty
\* string and an error.
C24_RegisterReturnsIDOfPath ==
  (op = "RegisterDevice" /\ result.returned)
  => /\ Registered
          => /\ result.err = Nil
             /\ result.val # Empty
             /\ Len(requests) = 1
             /\ requests[1].method = "PUT"
             /\ result.val = requests[1].id
             /\ given.InstallationID # Empty => result.val = given.InstallationID
             /\ given.InstallationID = Empty => result.val \in UUIDs
     /\ ~Registered => result.val = Empty /\ result.err # Nil

\* a caller that gave no InstallationID has got back a generated one after
\* the answer 201
C24_Witness ==
  /\ Registered
  /\ result.returned
  /\ responses[1].status = 201
  /\ given.InstallationID = Empty
  /\ result.val \in UUIDs
  /\ result.val = requests[1].id

\* --------------------------------------------------------- Configuration
\* a required field of the configuration is missing after the call
FieldMissing ==
  \/ config.Namespace = Empty
  \/ config.HubName = Empty
  \/ config.KeyName = Empty
  \/ config.KeyValue = Empty
  \/ config.TokenValidity <= 0

\* C25: a configuration for which Validate has returned nil has a
\* Namespace, a HubName, a KeyName and a KeyValue that are not empty and a
\* TokenValidity above zero, and Validate has returned an error for every
\* configuration in which one of them is missing.
C25_ValidatedIsComplete ==
  validation.done => (validation.err = Nil <=> ~FieldMissing)

\* the three fields a connection string stands for
Credentials(c) == <<c.Namespace, c.KeyName, c.KeyValue>>

\* C26: after Validate on a configuration whose ConnectionString has the
\* three parts of the documented format, in any order, Namespace, KeyName
\* and KeyValue are the namespace of the endpoint, the SharedAccessKeyName
\* and the SharedAccessKey, whatever they were before; after Validate on
\* one whose ConnectionString lacks a part or has an endpoint that does
\* not parse, Validate has returned an error and the three fields are as
\* before; the other fields are as before in every case.
C26_ConnectionStringOverridesOrLeaves ==
  validation.done =>
    LET before == validation.before
    IN /\ before.ConnectionString = WellFormed
            => Credentials(config) = <<<<"m">>, <<"j">>, <<"t", "=">>>>
       /\ before.ConnectionString = Reordered
            => Credentials(config) = <<<<"m">>, <<"j">>, <<"t">>>>
       /\ before.ConnectionString \in {OnePart, NoKey, BadEndpoint}
            => /\ validation.err # Nil
               /\ Credentials(config) = Credentials(before)
       /\ before.ConnectionString = Empty
            => Credentials(config) = Credentials(before)
       /\ config.HubName = before.HubName
       /\ config.TokenValidity = before.TokenValidity
       /\ config.ConnectionString = before.ConnectionString

\* Validate has replaced a Namespace, a KeyName and a KeyValue that were
\* set by the values of a connection string, and has returned nil
C26_Witness ==
  /\ validation.done
  /\ validation.err = Nil
  /\ validation.before.ConnectionString = WellFormed
  /\ Credentials(validation.before) = <<<<"n">>, <<"k">>, <<"s", "=">>>>
  /\ Credentials(config) = <<<<"m">>, <<"j">>, <<"t", "=">>>>

\* ------------------------------------------------------ SendNotification
\* C27: the attempt whose transport failed is the last of the call:
\* SendNotification has returned the error of the transport wrapped with
\* the name of the platform, which is not errDeviceNotFound; the failure
\* is not in the count of missing devices, the platform got no second
\* request and no later platform got one.
C27_TransportFailureEndsSend ==
  op = "SendNotification" =>
    \A i \in 1..Len(responses) :
      ~Answered(i) =>
        /\ i = Len(responses)
        /\ Len(requests) = i
        /\ InOrder
        /\ inflight = Nil
        /\ result.returned
        /\ pc[Client] = "idle"
        /\ result.err = Wrap(<<"failed to send %s request: %w",
                                availablePlatforms[i]>>, responses[i].err)
        /\ ErrorsIs(result.err, responses[i].err)
        /\ ~ErrorsIs(result.err, errDeviceNotFound)
        /\ noDevices = Cardinality({j \in 1..(i - 1) : NoDevice(j)})

\* the transport has failed for the second platform after a 404 of the
\* first, and the call has returned
C27_Witness ==
  /\ Returned
  /\ Len(responses) = 2
  /\ NoDevice(1)
  /\ responses[2].err = TransportError
  /\ noDevices = 1
  /\ Len(requests) = 2

\* ------------------------------------------------------------- payloads
\* the payload for a platform has been built
Built(platform) == payloads[platform] # NotBuilt
\* the object {title, body} of the notification
Alert ==
  Obj([k \in {"title", "body"} |->
         IF k = "title" THEN Str(notification.Title) ELSE Str(notification.Body)])

\* C28: the Apple payload is an object whose keys are aps and the keys
\* of the custom data; every custom key holds its custom value at the top
\* level, aps among them when the custom data has that key; otherwise aps
\* holds {alert: {title, body}}.
C28_AppleEnvelope ==
  Built(applePlatform) =>
    LET p == payloads[applePlatform]
        data == notification.Data
    IN /\ p.err = Nil
       /\ p.payload[1] = "obj"
       /\ DOMAIN p.payload[2] = {"aps"} \cup DOMAIN data
       /\ \A k \in DOMAIN data : p.payload[2][k] = data[k]
       /\ "aps" \notin DOMAIN data
            => p.payload[2]["aps"] = Obj([a \in {"alert"} |-> Alert])

\* the Apple payload of a notification whose custom data has the keys aps
\* and k has been built
C28_Witness ==
  /\ Built(applePlatform)
  /\ DOMAIN notification.Data = {"aps", "k"}
  /\ payloads[applePlatform].payload[2]["aps"] = Str(<<"v">>)
  /\ payloads[applePlatform].payload[2]["k"] = Str(<<"v">>)

\* the platforms that get the Android payload
AndroidPlatforms == {gcmPlatform, fcmV1Platform}

\* C29 as stated: the payload for gcm and for fcmV1 is the object
\* {notification: {title, body}, data: customData}.
C29_AndroidEnvelopeHasData ==
  \A platform \in AndroidPlatforms :
    Built(platform) =>
      payloads[platform].payload =
        Obj([k \in {"notification", "data"} |->
               IF k = "notification" THEN Alert ELSE Obj(notification.Data)])

\* C29: the payload for gcm and for fcmV1 is an object in which
\* notification holds {title, body} whatever the keys of the custom data
\* are, and in which the custom data stands under data and nowhere else;
\* the key data is there exactly when the custom data is not empty.
C29_AndroidEnvelopeOmitsEmptyData ==
  \A platform \in AndroidPlatforms :
    Built(platform) =>
      LET p == payloads[platform]
          data == notification.Data
      IN /\ p.err = Nil
         /\ p.payload[1] = "obj"
         /\ p.payload[2]["notification"] = Alert
         /\ DOMAIN data # {}
              => /\ DOMAIN p.payload[2] = {"notification", "data"}
                 /\ p.payload[2]["data"] = Obj(data)
         /\ DOMAIN data = {}
              => DOMAIN p.payload[2] = {"notification"}

\* the payloads for gcm and fcmV1 have been built, once for custom data
\* with the key notification
C29_Witness ==
  /\ Built(gcmPlatform)
  /\ Built(fcmV1Platform)
  /\ DOMAIN notification.Data = {"notification", "data"}
  /\ payloads[gcmPlatform].payload[2]["notification"] = Alert
  /\ payloads[fcmV1Platform].payload[2]["data"] = Obj(notification.Data)

\* C30: while a request of a Client operation is in flight the Client is
\* waiting for the answer and does not hold the mutex of the TokenManager:
\* its GetToken has returned the token the request carries.  A goroutine
\* that waits for the mutex meanwhile finds it free, or held by another
\* goroutine that is inside GetToken.
C30_NoLockAcrossRequest ==
  inflight # Nil =>
    /\ pc[Client] = "await"
    /\ mutex # Client
    /\ ret[Client] # NoResult
    /\ ret[Client].err = Nil
    /\ inflight.auth = ret[Client].tok
    /\ \A p \in Callers :
         pc[p] = "lock" =>
           \/ mutex = Free
           \/ mutex \in (Callers \ {p}) \cap InCritical

\* another goroutine refreshes the token inside GetToken while the request
\* of a DeleteDevice is in flight
C30_Witness ==
  /\ inflight # Nil
  /\ op = "DeleteDevice"
  /\ mutex = Bystander
  /\ pc[Bystander] = "generate"

\* the requests SendNotification has sent so far in the running call
SentAuths == {requests[i].auth : i \in 1..Len(requests)}

\* C31: the goroutine of SendNotification enters GetToken only at the start
\* of a call, when no request of the call has been sent; every request of
\* the call carries the token that one GetToken returned, whatever the
\* clock reads and whatever token the cache holds by then.
C31_OneTokenPerSend ==
  [][/\ (pc[Client] # "lock" /\ pc'[Client] = "lock")
          => pc[Client] = "idle" /\ requests' = <<>>
     /\ (pc[Client] = "lock" /\ pc'[Client] = "check") => requests = <<>>
     /\ (op' = "SendNotification" /\ requests' # <<>>)
          => /\ SentAuths' = {ret'[Client].tok}
             /\ ret'[Client].err = Nil
             /\ ret'[Client].tok # Empty
             /\ sasToken' = ret'[Client].tok
             /\ (requests # <<>> /\ op = "SendNotification")
                  => ret'[Client] = ret[Client]]_vars

\* the third request of a SendNotification is in flight with the token of
\* the first, after the refresh window of that token was crossed and
\* another goroutine has put a new token in the cache
C31_Witness ==
  /\ op = "SendNotification"
  /\ Len(requests) = 3
  /\ inflight # Nil
  /\ inflight.auth = requests[1].auth
  /\ token # inflight.auth
  /\ TokenSE(token) > TokenSE(inflight.auth)

\* a goroutine that has refreshed the cache and not yet returned
Refreshed(p) == pc[p] \in {"return", "unlock"} /\ gen[p] = 1 /\ mutex = p

\* C32: once a refresh has stored the token and expiresAt, the second of
\* expiresAt is the second the se field of the cached token holds.
C32_ExpiresAtIsSe ==
  \A p \in Procs :
    (Refreshed(p) /\ ret[p].err = Nil /\ token # Empty)
      => Unix(expiresAt) = TokenSE(token)

\* the token GetToken makes of the configuration when it reads the clock at now
Made(now) ==
  GenerateSASToken(ResourceURI(cfg), cfg.KeyName, cfg.KeyValue,
                   cfg.TokenValidity, now)
\* the instant the se field of a token stands for
SEInstant(tok) == TokenSE(tok) * Second

\* C33: the cached token is empty, or it is the token GenerateSASToken
\* returns for the resource URI of the configuration at an instant that has
\* been, and its se instant lies after that instant.
C33_CachedWasUnexpiredWhenIssued ==
  \/ token = Empty
  \/ \E now \in 0..clock :
       /\ Made(now).err = Nil
       /\ token = Made(now).tok
       /\ SEInstant(token) > now

\* the order in which SendNotification attempts the platforms
AttemptOrder == <<applePlatform, gcmPlatform, fcmV1Platform>>

\* C34: request i of a SendNotification goes to platform i of apple, gcm,
\* fcmV1; the requests sent are at most one more than the answers received,
\* and that one is the request in flight; a request is sent only when every
\* earlier request has been answered and its answer classified as one that
\* lets the loop go on.
C34_OneRequestAtATimeInOrder ==
  [][op' = "SendNotification" =>
       /\ Len(requests') <= Len(AttemptOrder)
       /\ \A i \in 1..Len(requests') : requests'[i].platform = AttemptOrder[i]
       /\ Len(requests') - Len(responses') \in {0, 1}
       /\ inflight' # Nil <=> Len(requests') = Len(responses') + 1
       /\ inflight' # Nil => inflight' = requests'[Len(requests')]
       /\ Len(requests') > Len(requests) =>
            /\ Len(requests') = Len(requests) + 1
            /\ inflight = Nil
            /\ Len(responses) = Len(requests)
            /\ Len(outcomes) = Len(responses)
            /\ \A i \in 1..Len(outcomes) : ~Aborts(outcomes[i])]_vars

\* the request to fcmV1 is in flight after apple answered 404 and gcm 200
C34_Witness ==
  /\ op = "SendNotification"
  /\ Len(requests) = 3
  /\ Len(responses) = 2
  /\ responses[1].status = StatusNotFound
  /\ responses[2].status = 200
  /\ inflight # Nil
  /\ inflight.platform = fcmV1Platform

\* the operations of a Client
ClientOps == DeviceOps \cup {"SendNotification"}
\* the GetToken of the running operation has returned an error
TokenFailed == op \in ClientOps /\ pc[Client] \in {"done", "idle"} /\ ret[Client].err # Nil

\* C35: when the GetToken of an operation has returned an error, the
\* operation has sent no request and sends none; once it has returned, it
\* has returned that error (DeviceExists as it is, the others wrapped) and
\* no value.
C35_NoTokenNoRequest ==
  TokenFailed =>
    /\ requests = <<>>
    /\ responses = <<>>
    /\ inflight = Nil
    /\ pc[Client] = "idle" =>
         /\ result.returned
         /\ result.err # Nil
         /\ ErrorsIs(result.err, ret[Client].err)
         /\ op # "DeviceExists"
              => result.err = Wrap(<<"failed to get SAS token: %w">>, ret[Client].err)
         /\ result.val = Empty
         /\ ~result.ok

\* DeleteDevice has returned the error of GetToken
C35_Witness ==
  /\ TokenFailed
  /\ op = "DeleteDevice"
  /\ pc[Client] = "idle"
  /\ result.returned
  /\ result.err # Nil

\* the running operation was called with an argument it rejects
Rejected ==
  \/ op = "RegisterDevice" /\ ValidateInstallation(arg) # Nil
  \/ op = "DeleteDevice" /\ arg.InstallationID = Empty

\* C36: a RegisterDevice whose installation fails Validate, and a
\* DeleteDevice with an empty installation ID, have returned an error by
\* the step that called them: GetToken was not entered, no request was
\* sent, and the step left the token, expiresAt and the mutex as they were.
C36_RejectedBeforeGetToken ==
  [][Rejected' =>
       /\ pc'[Client] = "idle"
       /\ result'.returned
       /\ result'.err # Nil
       /\ result'.val = Empty
       /\ op' = "RegisterDevice"
            => result'.err = Wrap(<<"invalid installation data: %w">>,
                                  ValidateInstallation(arg'))
       /\ gen'[Client] = 0
       /\ ret'[Client] = NoResult
       /\ requests' = <<>>
       /\ inflight' = Nil
       /\ UNCHANGED <<cfg, token, expiresAt, mutex, issued>>]_vars

\* RegisterDevice has rejected an installation without a push channel
\* while the cache holds a token
C36_Witness ==
  /\ Rejected
  /\ op = "RegisterDevice"
  /\ arg.PushChannel = Empty
  /\ result.returned
  /\ token # Empty

\* a goroutine that is inside a GetToken call
Calling(p) == pc[p] \notin {"idle", "done"}
\* a goroutine whose GetToken call has returned a token or an error
Finished(p) ==
  /\ pc[p] = "done"
  /\ mutex # p
  /\ ret[p].tok # Empty \/ ret[p].err # Nil

\* C37: under a fair scheduler every goroutine that has called GetToken
\* gets its result and no longer holds the mutex, whichever path the call
\* takes and whatever the other goroutines do.
C37_EveryCallReturns ==
  \A p \in Callers : Calling(p) ~> Finished(p)

\* two calls have failed one after the other and the mutex is free
C37_Witness ==
  /\ \A p \in {1, 2} : Finished(p) /\ ret[p].err # Nil /\ gen[p] = 1
  /\ mutex = Free

\* C38: with a positive TokenValidity no step makes expiresAt smaller, and
\* no step empties a cache that holds a token.
C38_ExpiryGrowsTokenStays ==
  [][cfg.TokenValidity > 0 =>
       /\ clock' >= clock
       /\ expiresAt' >= expiresAt
       /\ token # Empty => token' # Empty]_vars

\* a second refresh has replaced a token and moved expiresAt forward
C38_Witness ==
  \E p \in Procs :
    /\ pc[p] = "return"
    /\ gen[p] = 1
    /\ pre[p][1] # Empty
    /\ token # Empty
    /\ token # pre[p][1]
    /\ expiresAt > pre[p][2]
    /\ cfg.TokenValidity > 0

\* the validity of the configuration is shorter than the margin
ShortValidity == 0 < cfg.TokenValidity /\ cfg.TokenValidity < Margin

\* C39: with a TokenValidity shorter than the margin, a GetToken call that
\* is about to return has not taken its result from the cache: it has
\* called GenerateSASToken once, and with a validated configuration it
\* returns the token made at the clock it read, which is the token the
\* cache now holds, with expiresAt set by this call.
C39_ShortValidityNeverHits ==
  \A p \in Procs :
    (ShortValidity /\ AtReturn(p)) =>
      /\ ~hit[p]
      /\ gen[p] = 1
      /\ Valid =>
           /\ ret[p].err = Nil
           /\ ret[p].tok = token
           /\ \E now \in checkNow[p]..clock :
                /\ token = Made(now).tok
                /\ expiresAt \in (now + cfg.TokenValidity)..(clock + cfg.TokenValidity)

\* a call has issued again at an instant at which the token it found in
\* the cache had not yet expired
C39_Witness ==
  \E p \in Procs :
    /\ ShortValidity
    /\ AtReturn(p)
    /\ pre[p][1] # Empty
    /\ checkNow[p] < pre[p][2]
    /\ gen[p] = 1
    /\ ret[p].tok = token
====
